---------------------------- MODULE Spec2Model ----------------------------
(***************************************************************************)
(* Model of the Geospatial Hazard Resolution Engine of                     *)
(* hydrau1221/hazard-risk-checker: the label/score/class normalizers, the  *)
(* NRI tract/county handlers (tornado, landslide), the wildfire raster     *)
(* sampler and the page's fan-out (onCheck).                               *)
(*                                                                         *)
(* The repository keeps several revisions of each route; every revision    *)
(* that is modelled is a separate definition named after the source symbol *)
(* and told apart by a suffix (tornado1/tornado2, landslide/landslide4...).*)
(*                                                                         *)
(* Numbers are fixed-point: a JavaScript number x is the integer 100*x     *)
(* (hundredths), so 1.5 is 150 and the cut point 0.2 is 20.  NaN, null and *)
(* the infinities are separate tagged values.  Strings are tuples of       *)
(* one-character strings so that toLowerCase, replace, trim and includes   *)
(* are computed character by character.                                    *)
(***************************************************************************)
EXTENDS Integers, Sequences, FiniteSets, TLC

VARIABLES
    \* one normalizer call: function, input, LANDSLIDE_VALUE_MAP, outcome
    nfn, nin, ncfg, nout,
    \* one request to an NRI tract/county handler: handler revision, query
    \* parameters, what the two layers hold at the location, position in the
    \* handler, escalation stage, queries sent per layer, layers that yielded
    \* a feature, coordinate queried, response, the steps issued on each
    \* layer in the order of issue
    vh, vreq, vworld, vpc, vstage, vq, vfeat, vcoord, vresp, vissued,
    \* the page: revision, position in onCheck, the loading state, how each
    \* of the eight hazard requests settled, the hazard being read, the level
    \* on each card ("null" is the empty card), the error banner
    pver, ppc, ploading, pout, pidx, plevel, perror,
    \* the onCheck runs that have started and not reached their finally
    pruns,
    \* one request to the wildfire handler (first revision): query parameters,
    \* position in GET, source / ring / sample on the ring / variant being
    \* read, ring samples counted, whether every getSamples call so far
    \* failed, whether the current sample point got an answer, whether some
    \* sample point got none, response
    wreq, wpc, wsrc, wring, wi, wvar, wattempts, wallFailed, wptAnswered, wgap, wresp,
    \* the ring sample points tryVariants has been called on, the point the
    \* current sample is read at (the offsets applied to the (lat, lon) that
    \* sampleNearest was called with)
    wprobed, wpoint,
    \* one readBothAndChoose call (wildfire, third revision): position, how
    \* the RPS and the RPS_Class getSamples calls ended, the result
    bpc, brps, bcls, bout,
    \* one classifyFlood call: page revision, feature list, position, result
    cver, cfeatures, cpc, cout,
    \* one request to the flood query handler: revision, query parameters,
    \* position in GET, outbound call in turn, how the last call ended,
    \* response
    fver, freq, fpc, fstage, flast, fresp,
    \* layer discovery: the candidate bases, position, the answer to the
    \* request with debug=1 and to the request without
    dbases, dpc, don, doff,
    \* sampleNearest: mode, position, source, ring radius (m), sample of the
    \* ring, bestAtRadius, level of the ring's first valid sample, result
    smode, spc, ssrc, sradius, si, sbest, sfirst, sout,
    \* the getSamples calls sampleNearest has made
    scalls,
    \* one sample read by a sampler: the sampler, the rendering rule, how the
    \* getSamples call ended, samples[0].value, position, what came of it
    xfn, xlabel, xkind, xraw, xpc, xout,
    \* one call of a field locator: the locator, the attribute bag, position,
    \* the fields it returned
    afn, abag, apc, aout,
    \* one call of byteToClass: the byte, position, the class
    yb, ypc, yout,
    \* the provider requests of one invocation: the handler, position, the
    \* call it is at, the requests outstanding
    qh, qpc, qk, qflight,
    \* two samples read under one rendering rule: the sampler, the rule, the
    \* smaller and the larger raw value (hundredths), position, their levels
    mfn, mlabel, mlo, mhi, mpc, mout,
    \* one call of extractTornado: the polygon's attributes, position, the level
    tattrs, tpc, tout

varsNorm == <<nfn, nin, ncfg, nout>>

varsVec == <<vh, vreq, vworld, vpc, vstage, vq, vfeat, vcoord, vresp, vissued>>

varsPage == <<pver, ppc, ploading, pout, pidx, plevel, perror, pruns>>

varsWf == <<wreq, wpc, wsrc, wring, wi, wvar, wattempts, wallFailed, wptAnswered, wgap, wresp,
           wprobed, wpoint>>

varsRead == <<bpc, brps, bcls, bout>>

varsFlood == <<cver, cfeatures, cpc, cout>>

varsFema == <<fver, freq, fpc, fstage, flast, fresp>>

varsDisc == <<dbases, dpc, don, doff>>

varsSample == <<smode, spc, ssrc, sradius, si, sbest, sfirst, sout, scalls>>

varsPx == <<xfn, xlabel, xkind, xraw, xpc, xout>>

varsAttr == <<afn, abag, apc, aout>>

varsByte == <<yb, ypc, yout>>

varsFlight == <<qh, qpc, qk, qflight>>

varsPair == <<mfn, mlabel, mlo, mhi, mpc, mout>>

varsTorn == <<tattrs, tpc, tout>>

vars == <<varsNorm, varsVec, varsPage, varsWf, varsRead, varsFlood, varsFema, varsDisc,
          varsSample, varsPx, varsAttr, varsByte, varsFlight, varsPair, varsTorn>>

(***************************************************************************)
(* Bounds of the model.                                                    *)
(***************************************************************************)
\* longest run of separator characters put between or around two words
MaxSepLen == 2

\* most hazard requests of one onCheck run that do not simply succeed
MaxFailed == 2

(***************************************************************************)
(* JavaScript values.                                                      *)
(***************************************************************************)
JsNull == [t |-> "null", v |-> 0, s |-> <<>>]

JsNaN == [t |-> "nan", v |-> 0, s |-> <<>>]

JsPosInf == [t |-> "inf", v |-> 1, s |-> <<>>]

JsNegInf == [t |-> "inf", v |-> -1, s |-> <<>>]

\* the number h/100
JsNum(h) == [t |-> "num", v |-> h, s |-> <<>>]

\* a finite number of magnitude above 1e20, of the given sign
JsHuge(sign) == [t |-> "huge", v |-> sign, s |-> <<>>]

JsStr(str) == [t |-> "str", v |-> 0, s |-> str]

\* a JSON object or array (String(x) is "[object Object]", typeof is "object")
JsObj == [t |-> "obj", v |-> 0, s |-> <<>>]

\* the boolean true
JsTrue == [t |-> "bool", v |-> 1, s |-> <<>>]

\* Number.isFinite(x)
IsFiniteNum(x) == x.t = "num"

\* Math.abs(x) > 1e20, for a finite x
IsHuge(x) == x.t = "huge"

\* raw == null
IsNullish(x) == x.t = "null"

(***************************************************************************)
(* Strings as tuples of characters.                                        *)
(***************************************************************************)
UpperChars == <<"A","B","C","D","E","F","G","H","I","J","K","L","M",
                "N","O","P","Q","R","S","T","U","V","W","X","Y","Z">>

LowerChars == <<"a","b","c","d","e","f","g","h","i","j","k","l","m",
                "n","o","p","q","r","s","t","u","v","w","x","y","z">>

DigitChars == <<"0","1","2","3","4","5","6","7","8","9">>

\* the characters JavaScript's \s matches, among those the inputs use
WhiteChars == {" ", "\t"}

LowerChar(c) ==
    IF \E k \in 1..26 : UpperChars[k] = c
    THEN LowerChars[CHOOSE k \in 1..26 : UpperChars[k] = c]
    ELSE c

\* String.prototype.toLowerCase
ToLowerCase(str) == [i \in 1..Len(str) |-> LowerChar(str[i])]

\* String.prototype.includes
Includes(str, needle) ==
    \E i \in 0..(Len(str) - Len(needle)) :
        SubSeq(str, i + 1, i + Len(needle)) = needle

\* String.prototype.startsWith
StartsWith(str, prefix) ==
    Len(prefix) <= Len(str) /\ SubSeq(str, 1, Len(prefix)) = prefix

IsWhite(c) == c \in WhiteChars

RECURSIVE TrimLeft(_)
TrimLeft(str) ==
    IF str # <<>> /\ IsWhite(Head(str)) THEN TrimLeft(Tail(str)) ELSE str

RECURSIVE TrimRight(_)
TrimRight(str) ==
    IF str # <<>> /\ IsWhite(str[Len(str)])
    THEN TrimRight(SubSeq(str, 1, Len(str) - 1))
    ELSE str

\* String.prototype.trim
Trim(str) == TrimRight(TrimLeft(str))

\* the character class [\s_\-()/]
IsSepChar(c) == IsWhite(c) \/ c \in {"_", "-", "(", ")", "/"}

NotSepChar(c) == ~IsSepChar(c)

\* str.replace(/[\s_\-()/]+/g, "")
StripSeparators(str) == SelectSeq(str, NotSepChar)

IsDigit(c) == \E k \in 1..10 : DigitChars[k] = c

DigitValue(c) == (CHOOSE k \in 1..10 : DigitChars[k] = c) - 1

RECURSIVE ParseDigits(_, _)
ParseDigits(str, acc) ==
    IF str = <<>> THEN acc
    ELSE ParseDigits(Tail(str), acc * 10 + DigitValue(Head(str)))

RECURSIVE NatToStr(_)
NatToStr(n) ==
    IF n < 10 THEN <<DigitChars[n + 1]>>
    ELSE NatToStr(n \div 10) \o <<DigitChars[(n % 10) + 1]>>

(***************************************************************************)
(* String literals of the source.                                          *)
(***************************************************************************)
s_very == <<"v","e","r","y">>

s_high == <<"h","i","g","h">>

s_low == <<"l","o","w">>

s_moderate == <<"m","o","d","e","r","a","t","e">>

s_relatively == <<"r","e","l","a","t","i","v","e","l","y">>

s_not == <<"n","o","t">>

s_no == <<"n","o">>

s_applicable == <<"a","p","p","l","i","c","a","b","l","e">>

s_insufficient == <<"i","n","s","u","f","f","i","c","i","e","n","t">>

s_data == <<"d","a","t","a">>

s_rating == <<"r","a","t","i","n","g">>

s_undetermined == <<"u","n","d","e","t","e","r","m","i","n","e","d">>

s_unknown == <<"u","n","k","n","o","w","n">>

s_vh == <<"v","h">>

s_vl == <<"v","l">>

s_sp == <<" ">>

s_null == <<"n","u","l","l">>

s_NaN == <<"N","a","N">>

s_Infinity == <<"I","n","f","i","n","i","t","y">>

s_object == <<"[","o","b","j","e","c","t"," ","O","b","j","e","c","t","]">>

s_NoRating == <<"N","o"," ","R","a","t","i","n","g">>

\* String(x)
ToStr(x) ==
    CASE x.t = "str" -> x.s
      [] x.t = "null" -> s_null
      [] x.t = "nan" -> s_NaN
      [] x.t = "inf" -> IF x.v > 0 THEN s_Infinity ELSE <<"-">> \o s_Infinity
      [] x.t = "obj" -> s_object
      [] x.t = "bool" -> <<"t","r","u","e">>
      [] x.t = "num" ->
            LET a == IF x.v < 0 THEN -x.v ELSE x.v
                whole == NatToStr(a \div 100)
                frac == a % 100
                tail == IF frac = 0 THEN <<>>
                        ELSE IF frac % 10 = 0 THEN <<".", DigitChars[(frac \div 10) + 1]>>
                        ELSE <<".", DigitChars[(frac \div 10) + 1], DigitChars[(frac % 10) + 1]>>
            IN  (IF x.v < 0 THEN <<"-">> ELSE <<>>) \o whole \o tail

\* Number(x), for the values the model feeds: a string is a number when,
\* trimmed, it is empty (0) or all digits; anything else is NaN
ToNumber(x) ==
    CASE x.t = "num" -> x
      [] x.t = "huge" -> x
      [] x.t = "nan" -> x
      [] x.t = "inf" -> x
      [] x.t = "null" -> JsNum(0)
      [] x.t = "obj" -> JsNaN
      [] x.t = "bool" -> JsNum(100)
      [] x.t = "str" ->
            LET tr == Trim(x.s)
            IN  IF tr = <<>> THEN JsNum(0)
                ELSE IF \A i \in 1..Len(tr) : IsDigit(tr[i])
                     THEN JsNum(100 * ParseDigits(tr, 0))
                     ELSE JsNaN

\* Math.round(h/100), as an integer: floor(x + 0.5)
MathRound(h) == (h + 50) \div 100

(***************************************************************************)
(* The risk taxonomy.                                                      *)
(***************************************************************************)
OrderedLevels == {"Very Low", "Low", "Moderate", "High", "Very High"}

Levels == OrderedLevels \cup {"Undetermined", "Not Applicable"}

\* the outcome of a call that throws
Thrown == "THROW"


(***************************************************************************)
(* Comparisons on tagged numbers (every comparison with NaN is false).     *)
(***************************************************************************)
\* x <= h/100
NumLe(x, h) == (x.t = "num" /\ x.v <= h) \/ (x.t = "inf" /\ x.v < 0)

\* x >= h/100
NumGe(x, h) == (x.t = "num" /\ x.v >= h) \/ (x.t = "inf" /\ x.v > 0)

\* JavaScript truthiness
Truthy(x) ==
    CASE x.t = "null" -> FALSE
      [] x.t = "nan" -> FALSE
      [] x.t = "num" -> x.v # 0
      [] x.t = "str" -> x.s # <<>>
      [] OTHER -> TRUE

(***************************************************************************)
(* Label literals returned or held by the source.                          *)
(***************************************************************************)
L_VeryLow == <<"V","e","r","y"," ","L","o","w">>

L_Low == <<"L","o","w">>

L_Moderate == <<"M","o","d","e","r","a","t","e">>

L_High == <<"H","i","g","h">>

L_VeryHigh == <<"V","e","r","y"," ","H","i","g","h">>

(***************************************************************************)
(* tornado/risk/route.ts: mapLabelToLevel, mapScoreToLevel                 *)
(***************************************************************************)
mapLabelToLevel(raw) ==
    IF IsNullish(raw) THEN "Undetermined"
    ELSE LET s == StripSeparators(ToLowerCase(ToStr(raw)))
         IN  IF Includes(s, s_not \o s_applicable) THEN "Not Applicable"
             ELSE IF Includes(s, s_insufficient \o s_data) THEN "Undetermined"
             ELSE IF Includes(s, s_no \o s_rating) THEN "Not Applicable"
             ELSE IF Includes(s, s_very \o s_high) THEN "Very High"
             ELSE IF Includes(s, s_relatively \o s_high) \/ s = s_high THEN "High"
             ELSE IF Includes(s, s_relatively \o s_moderate) \/ s = s_moderate THEN "Moderate"
             ELSE IF Includes(s, s_relatively \o s_low) \/ s = s_low THEN "Low"
             ELSE IF Includes(s, s_very \o s_low) THEN "Very Low"
             ELSE "Undetermined"

mapScoreToLevel(scoreRaw) ==
    IF IsNullish(scoreRaw) THEN "Undetermined"
    ELSE LET n == IF scoreRaw.t \in {"num", "nan", "inf"} THEN scoreRaw ELSE ToNumber(scoreRaw)
         IN  IF ~IsFiniteNum(n) THEN "Undetermined"
             ELSE LET s == IF n.v <= 150 THEN n.v * 100 ELSE n.v
                  IN  IF s <= 0 THEN "Not Applicable"
                      ELSE IF s > 9900 THEN "Very High"
                      ELSE IF s > 9300 THEN "High"
                      ELSE IF s > 8500 THEN "Moderate"
                      ELSE IF s > 7100 THEN "Low"
                      ELSE "Very Low"

(***************************************************************************)
(* landslide/risk/route.ts (first revision): toLevelFromLabel,             *)
(* toLevelFromValue with the LANDSLIDE_VALUE_MAP override                  *)
(***************************************************************************)
\* (label || "").toLowerCase() throws a TypeError when label is truthy and
\* not a string
toLevelFromLabel(label) ==
    IF Truthy(label) /\ label.t # "str" THEN Thrown
    ELSE LET s == IF Truthy(label) THEN ToLowerCase(label.s) ELSE <<>>
         IN  IF Includes(s, s_very \o s_sp \o s_high) THEN "Very High"
             ELSE IF s = s_vh THEN "Very High"
             ELSE IF Includes(s, s_high) THEN "High"
             ELSE IF Includes(s, s_moderate) THEN "Moderate"
             ELSE IF Includes(s, s_very \o s_sp \o s_low) THEN "Very Low"
             ELSE IF s = s_vl THEN "Very Low"
             ELSE IF Includes(s, s_low) THEN "Low"
             ELSE IF Includes(s, s_no \o s_sp \o s_data) \/ Includes(s, s_undetermined)
                     \/ Includes(s, s_unknown) THEN "Undetermined"
             ELSE "Undetermined"

\* the const fallback of toLevelFromValue
ValueMapFallback ==
    [k |-> "object",
     m |-> (1 :> JsStr(L_VeryLow) @@ 2 :> JsStr(L_Low) @@ 3 :> JsStr(L_Moderate)
            @@ 4 :> JsStr(L_High) @@ 5 :> JsStr(L_VeryHigh))]

\* LANDSLIDE_VALUE_MAP: unset (or empty), not JSON, or JSON that parses to
\* null, to a number or to an object whose keys are class codes
CfgUnset == [k |-> "unset", m |-> <<>>]

CfgInvalid == [k |-> "invalid", m |-> <<>>]

CfgJsonNull == [k |-> "null", m |-> <<>>]

CfgJsonNumber == [k |-> "number", m |-> <<>>]

CfgObject(m) == [k |-> "object", m |-> m]

\* try { if (mapJson) map = JSON.parse(mapJson); } catch {}
ParsedValueMap(cfg) ==
    IF cfg.k \in {"unset", "invalid"} THEN ValueMapFallback ELSE cfg

\* map[String(Math.round(v))]: "undefined" is modelled as null (both falsy)
toLevelFromValue(v, cfg) ==
    LET map == ParsedValueMap(cfg)
    IN  IF map.k = "null" THEN Thrown
        ELSE LET label ==
                    IF map.k = "object" /\ v.t = "num" /\ MathRound(v.v) \in DOMAIN map.m
                    THEN map.m[MathRound(v.v)]
                    ELSE JsNull
             IN  IF Truthy(label) THEN toLevelFromLabel(label) ELSE "Undetermined"

(***************************************************************************)
(* landslide/risk/route.ts (NRI revision): mapLabelLoose                   *)
(***************************************************************************)
ClassCodeLevel(n) ==
    CASE n = 1 -> "Very Low"
      [] n = 2 -> "Low"
      [] n = 3 -> "Moderate"
      [] n = 4 -> "High"
      [] n = 5 -> "Very High"
      [] OTHER -> "Undetermined"

mapLabelLoose(raw) ==
    IF IsNullish(raw) THEN [level |-> "Undetermined", label |-> s_NoRating, source |-> "text"]
    ELSE IF raw.t \in {"num", "nan", "inf"} THEN
        LET v == raw
            lbl == ToStr(v)
            \* x = v > 1.5 ? v / 100 : v, in units of 1/10000
            x == IF v.t = "num"
                 THEN JsNum(IF v.v > 150 THEN v.v ELSE v.v * 100)
                 ELSE v
        IN  IF NumGe(v, 100) /\ NumLe(v, 500)
            THEN [level |-> ClassCodeLevel(MathRound(v.v)), label |-> lbl, source |-> "numeric"]
            ELSE IF NumLe(x, 2000) THEN [level |-> "Very Low", label |-> lbl, source |-> "numeric"]
            ELSE IF NumLe(x, 4000) THEN [level |-> "Low", label |-> lbl, source |-> "numeric"]
            ELSE IF NumLe(x, 6000) THEN [level |-> "Moderate", label |-> lbl, source |-> "numeric"]
            ELSE IF NumLe(x, 8000) THEN [level |-> "High", label |-> lbl, source |-> "numeric"]
            ELSE [level |-> "Very High", label |-> lbl, source |-> "numeric"]
    ELSE
        LET s0 == ToStr(raw)
            s == Trim(ToLowerCase(s0))
            norm == StripSeparators(s)
        IN  IF Includes(norm, s_no \o s_rating) \/ Includes(norm, s_insufficient)
               \/ Includes(norm, s_not \o s_applicable)
            THEN [level |-> "Undetermined", label |-> s0, source |-> "text"]
            ELSE IF norm = s_vh THEN [level |-> "Very High", label |-> s0, source |-> "code"]
            ELSE IF norm = <<"h">> THEN [level |-> "High", label |-> s0, source |-> "code"]
            ELSE IF norm = <<"m">> THEN [level |-> "Moderate", label |-> s0, source |-> "code"]
            ELSE IF norm = <<"l">> THEN [level |-> "Low", label |-> s0, source |-> "code"]
            ELSE IF norm = s_vl THEN [level |-> "Very Low", label |-> s0, source |-> "code"]
            ELSE IF Includes(norm, s_very \o s_high) THEN [level |-> "Very High", label |-> s0, source |-> "text"]
            ELSE IF Includes(norm, s_relatively \o s_high) THEN [level |-> "High", label |-> s0, source |-> "text"]
            ELSE IF Includes(norm, s_high) THEN [level |-> "High", label |-> s0, source |-> "text"]
            ELSE IF Includes(norm, s_relatively \o s_moderate) THEN [level |-> "Moderate", label |-> s0, source |-> "text"]
            ELSE IF Includes(norm, s_moderate) THEN [level |-> "Moderate", label |-> s0, source |-> "text"]
            ELSE IF Includes(norm, s_very \o s_low) THEN [level |-> "Very Low", label |-> s0, source |-> "text"]
            ELSE IF Includes(norm, s_relatively \o s_low) THEN [level |-> "Low", label |-> s0, source |-> "text"]
            ELSE IF Includes(norm, s_low) THEN [level |-> "Low", label |-> s0, source |-> "text"]
            ELSE [level |-> "Undetermined", label |-> s0, source |-> "text"]

(***************************************************************************)
(* wildfire/homes/route.ts: levelFromRps, levelFromClassCode               *)
(***************************************************************************)
levelFromRps(v) ==
    IF IsNullish(v) \/ ~IsFiniteNum(v) THEN "Not Applicable"
    ELSE IF v.v < 16000 THEN "Very Low"
    ELSE IF v.v < 35000 THEN "Low"
    ELSE IF v.v < 60000 THEN "Moderate"
    ELSE IF v.v < 85000 THEN "High"
    ELSE "Very High"

levelFromClassCode(v) ==
    IF IsNullish(v) \/ ~IsFiniteNum(v) THEN "Not Applicable"
    ELSE LET n == MathRound(v.v)
         IN  IF n <= 0 THEN "Not Applicable"
             ELSE IF n = 1 THEN "Very Low"
             ELSE IF n = 2 THEN "Low"
             ELSE IF n = 3 THEN "Moderate"
             ELSE IF n = 4 THEN "High"
             ELSE "Very High"

(***************************************************************************)
(* landslide tiles revision (part_003): mapLabelToLevel, with its own      *)
(* result vocabulary; NRI landslide revision of part_004: mapToFive        *)
(***************************************************************************)
mapLabelToLevel_tiles(label) ==
    LET l == ToLowerCase(label.s)
    IN  IF Includes(l, s_very \o s_sp \o s_high) THEN "very_high"
        ELSE IF Includes(l, s_high) THEN "high"
        ELSE IF Includes(l, s_moderate) THEN "moderate"
        ELSE IF Includes(l, s_very \o s_sp \o s_low) THEN "very_low"
        ELSE IF Includes(l, s_low) THEN "low"
        ELSE "very_low"

mapToFive(raw) ==
    LET s == Trim(ToLowerCase(IF IsNullish(raw) THEN <<>> ELSE ToStr(raw)))
    IN  IF s = <<>> THEN [level |-> "Undetermined", label |-> s_NoRating]
        ELSE IF Includes(s, s_very \o s_sp \o s_high)
             THEN [level |-> "Very High", label |-> L_VeryHigh]
        ELSE IF Includes(s, s_relatively \o s_sp \o s_high)
             THEN [level |-> "High", label |-> <<"R">> \o Tail(s_relatively) \o s_sp \o L_High]
        ELSE IF Includes(s, s_relatively \o s_sp \o s_moderate)
             THEN [level |-> "Moderate", label |-> <<"R">> \o Tail(s_relatively) \o s_sp \o L_Moderate]
        ELSE IF Includes(s, s_relatively \o s_sp \o s_low)
             THEN [level |-> "Low", label |-> <<"R">> \o Tail(s_relatively) \o s_sp \o L_Low]
        ELSE IF Includes(s, s_very \o s_sp \o s_low)
             THEN [level |-> "Very Low", label |-> L_VeryLow]
        ELSE IF Includes(s, s_no \o s_sp \o s_rating) \/ Includes(s, s_insufficient)
                \/ Includes(s, s_not \o s_sp \o s_applicable)
             THEN [level |-> "Undetermined", label |-> ToStr(raw)]
        ELSE [level |-> "Undetermined", label |-> ToStr(raw)]


(***************************************************************************)
(* Normalizer inputs.                                                      *)
(***************************************************************************)
\* the separators a provider may put between or around the words of a label
LabelSepChars == {" ", "_", "-"}

\* every run of at most n separator characters
SepRuns(n) == UNION {[1..k -> LabelSepChars] : k \in 0..n}

\* String.prototype.toUpperCase, for the letters the labels use
ToUpperCase(str) ==
    [i \in 1..Len(str) |->
        IF \E k \in 1..26 : LowerChars[k] = str[i]
        THEN UpperChars[CHOOSE k \in 1..26 : LowerChars[k] = str[i]]
        ELSE str[i]]

\* first letter upper case
Capitalize(str) == <<ToUpperCase(str)[1]>> \o Tail(str)

\* the two-word phrases the providers publish
LabelPhrases ==
    {<<s_very, s_high>>, <<s_very, s_low>>, <<s_relatively, s_high>>,
     <<s_relatively, s_moderate>>, <<s_relatively, s_low>>, <<s_no, s_rating>>,
     <<s_not, s_applicable>>, <<s_insufficient, s_data>>}

\* one phrase in lower, upper and capitalised case, with separator runs
\* between and around its words
PhraseVariants(ph) ==
    {pre \o w[1] \o mid \o w[2] \o post :
        w \in {ph, <<ToUpperCase(ph[1]), ToUpperCase(ph[2])>>,
               <<Capitalize(ph[1]), Capitalize(ph[2])>>},
        pre \in SepRuns(1), mid \in SepRuns(MaxSepLen), post \in SepRuns(1)}

\* single words, short codes, and strings no rule knows
PlainStrings ==
    {s_high, s_low, s_moderate, L_High, L_Low, L_Moderate, s_vh, s_vl,
     <<"h">>, <<"m">>, <<"l">>, <<"V","H">>, s_unknown, s_undetermined,
     <<>>, <<" ">>, <<"x","y","z">>, <<"n","/","a">>, <<"3">>, <<"7","5">>,
     <<"-","1">>, <<"s","l","o","w">>}

LabelInputs == {JsStr(str) : str \in (UNION {PhraseVariants(ph) : ph \in LabelPhrases}) \cup PlainStrings}

\* numbers in hundredths: around every cut point of every scale, negative,
\* the raster no-data sentinel, and beyond every declared range
NumberInputs ==
    {JsNum(h) : h \in {-999900, -500, -100, -1, 0, 1, 10, 20, 21, 40, 49, 50,
                       60, 80, 81, 99, 100, 140, 149, 150, 151, 250, 300, 449,
                       450, 500, 501, 549, 550, 600, 700, 2000, 4000, 6000,
                       7100, 7101, 8000, 8500, 8501, 9300, 9301, 9900, 9901,
                       10000, 15900, 16000, 34900, 35000, 50000, 59900, 60000,
                       84900, 85000, 102000, 25500, 99900000}}
    \cup {JsNaN, JsPosInf, JsNegInf}

\* what LANDSLIDE_VALUE_MAP may hold
ValueMapConfigs ==
    {CfgUnset, CfgInvalid, CfgJsonNull, CfgJsonNumber,
     CfgObject(3 :> JsStr(L_High)), CfgObject(3 :> JsNum(700)),
     CfgObject(3 :> JsObj), CfgObject(3 :> JsNull),
     CfgObject(1 :> JsStr(<<"b","a","d">>) @@ 6 :> JsStr(L_VeryHigh))}

NormFns ==
    {"mapLabelToLevel", "mapScoreToLevel", "toLevelFromLabel", "toLevelFromValue",
     "mapLabelLoose", "levelFromRps", "levelFromClassCode",
     "mapLabelToLevel_tiles", "mapToFive"}

\* the values each normalizer's parameter type and callers admit
NormInputs(fn) ==
    CASE fn = "mapLabelToLevel" -> LabelInputs \cup NumberInputs \cup {JsNull, JsObj}
      [] fn = "mapScoreToLevel" -> NumberInputs \cup {JsNull, JsObj} \cup {JsStr(s) : s \in PlainStrings}
      [] fn = "toLevelFromLabel" -> LabelInputs
      [] fn = "toLevelFromValue" -> NumberInputs
      [] fn = "mapLabelLoose" -> LabelInputs \cup NumberInputs \cup {JsNull, JsObj}
      [] fn = "levelFromRps" -> NumberInputs \cup {JsNull}
      [] fn = "levelFromClassCode" -> NumberInputs \cup {JsNull}
      [] fn = "mapLabelToLevel_tiles" -> LabelInputs
      [] fn = "mapToFive" -> LabelInputs \cup {JsNull}

\* the level a normalizer returns, or Thrown
Normalize(fn, x, cfg) ==
    CASE fn = "mapLabelToLevel" -> mapLabelToLevel(x)
      [] fn = "mapScoreToLevel" -> mapScoreToLevel(x)
      [] fn = "toLevelFromLabel" -> toLevelFromLabel(x)
      [] fn = "toLevelFromValue" -> toLevelFromValue(x, cfg)
      [] fn = "mapLabelLoose" -> mapLabelLoose(x).level
      [] fn = "levelFromRps" -> levelFromRps(x)
      [] fn = "levelFromClassCode" -> levelFromClassCode(x)
      [] fn = "mapLabelToLevel_tiles" -> mapLabelToLevel_tiles(x)
      [] fn = "mapToFive" -> mapToFive(x).level

NormPending == [st |-> "pending", level |-> "-"]

NormInit ==
    /\ nfn \in NormFns
    /\ nin \in NormInputs(nfn)
    /\ ncfg \in (IF nfn = "toLevelFromValue" THEN ValueMapConfigs ELSE {CfgUnset})
    /\ nout = NormPending

\* no normalizer call under way (the other specifications)
NormIdle ==
    /\ nfn = "levelFromRps"
    /\ nin = JsNull
    /\ ncfg = CfgUnset
    /\ nout = [st |-> "off", level |-> "-"]

\* one call of the normalizer
NormCall ==
    /\ nout.st = "pending"
    /\ LET r == Normalize(nfn, nin, ncfg)
       IN  nout' = IF r = Thrown THEN [st |-> "threw", level |-> "-"]
                   ELSE [st |-> "returned", level |-> r]
    /\ UNCHANGED <<nfn, nin, ncfg>>

(***************************************************************************)
(* NRI tract/county handlers: tornado/risk/route.ts (two revisions),       *)
(* landslide/risk/route.ts (NRI revision) and the NRI landslide revision   *)
(* kept in part_004.                                                       *)
(***************************************************************************)
VecHandlers == {"tornado1", "tornado2", "landslide", "landslide4"}

IsTornado(h) == h \in {"tornado1", "tornado2"}

\* the attributes of a polygon that the handlers read: the hazard's rating
\* field and its score field (JsNull when the field is absent)
Attrs(rating, score) == [has |-> TRUE, rating |-> rating, score |-> score]

\* no polygon of the layer at or near the location
NoPolygon == [has |-> FALSE, rating |-> JsNull, score |-> JsNull]

s_Relatively == Capitalize(s_relatively)

PolygonChoices ==
    {NoPolygon,
     Attrs(JsStr(s_Relatively \o s_sp \o L_Low), JsNum(7550)),
     Attrs(JsStr(s_Relatively \o s_sp \o L_High), JsNum(9512)),
     Attrs(JsStr(Capitalize(s_insufficient) \o s_sp \o Capitalize(s_data)), JsNull),
     Attrs(JsStr(s_NoRating), JsNum(0)),
     Attrs(JsNull, JsNum(8800)),
     Attrs(JsNull, JsNull)}

\* tornado revision 1, extract(): label and score (scaled to 0-100)
extract(attrs) ==
    [label |-> IF IsNullish(attrs.rating) THEN JsNull ELSE JsStr(ToStr(attrs.rating)),
     score |-> IF attrs.score.t = "num"
               THEN JsNum(IF attrs.score.v <= 150 THEN attrs.score.v * 100 ELSE attrs.score.v)
               ELSE JsNull]

\* tornado revision 1: level by label, or by score when mode=score
LevelTornado1(attrs, mode) ==
    IF mode = "score" THEN mapScoreToLevel(extract(attrs).score)
    ELSE mapLabelToLevel(extract(attrs).label)

\* an extractTornado that takes the score whenever there is one
extractTornado_scoreFirst(attrs) ==
    LET score == IF attrs.score.t = "num" THEN attrs.score ELSE JsNull
    IN  IF score.t = "num"
        THEN IF score.v >= 8000 THEN "Very High"
             ELSE IF score.v >= 6000 THEN "High"
             ELSE IF score.v >= 4000 THEN "Moderate"
             ELSE IF score.v >= 2000 THEN "Low"
             ELSE "Very Low"
        ELSE mapLabelToLevel(attrs.rating)

\* tornado revision 2, extractTornado(): level by label, falling back to the
\* score cut points when the label gives Undetermined or Not Applicable
extractTornado(attrs) ==
    LET score == IF attrs.score.t = "num" THEN attrs.score ELSE JsNull
        level == mapLabelToLevel(attrs.rating)
    IN  IF level \in {"Undetermined", "Not Applicable"} /\ score.t = "num"
        THEN IF score.v >= 8000 THEN "Very High"
             ELSE IF score.v >= 6000 THEN "High"
             ELSE IF score.v >= 4000 THEN "Moderate"
             ELSE IF score.v >= 2000 THEN "Low"
             ELSE "Very Low"
        ELSE level

\* landslide NRI revision, extractRating(): rating fields first, numeric
\* fields next
extractRating(attrs) ==
    IF /\ ~IsNullish(attrs.rating)
       /\ \/ mapLabelLoose(attrs.rating).level # "Undetermined"
          \/ Trim(ToStr(attrs.rating)) # <<>>
    THEN mapLabelLoose(attrs.rating).level
    ELSE IF attrs.score.t \in {"num", "nan", "inf"}
         THEN mapLabelLoose(attrs.score).level
         ELSE "Undetermined"

\* part_004: readNriLandslide() gives the rating field or null
readNriLandslide(attrs) == attrs.rating

\* the level a handler derives from a feature's attributes
FeatureLevel(h, attrs, mode) ==
    CASE h = "tornado1" -> LevelTornado1(attrs, mode)
      [] h = "tornado2" -> extractTornado(attrs)
      [] h = "landslide" -> extractRating(attrs)
      [] h = "landslide4" -> mapToFive(readNriLandslide(attrs)).level

\* an escalation that starts with its widest step
Stages_widestFirst(h) ==
    CASE h = "tornado1" -> <<"envelope:intersects:50m", "point:within">>
      [] h = "tornado2" -> <<"envelope:intersects:150m", "point:within">>
      [] h = "landslide" -> <<"envelope70", "point">>
      [] h = "landslide4" -> <<"point">>

\* the escalation stages of one layer, in the order the handler queries them
Stages(h) ==
    CASE h = "tornado1" -> <<"point:within", "point:intersects:3m", "point:intersects:7m",
                             "point:intersects:15m", "point:intersects:30m",
                             "envelope:intersects:50m">>
      [] h = "tornado2" -> <<"point:within", "point:intersects:3m", "point:intersects:7m",
                             "point:intersects:15m", "point:intersects:30m",
                             "point:intersects:50m", "envelope:intersects:150m">>
      [] h = "landslide" -> <<"point", "envelope50", "envelope70">>
      [] h = "landslide4" -> <<"point">>

\* a rejected fetch is caught by queryAtPoint (part_004) only; elsewhere it
\* leaves GET as an unhandled exception
CatchesFetch(h) == h = "landslide4"

\* after an HTTP error the tornado pickFeature goes on to its next stage;
\* the landslide handler leaves the layer
ContinuesAfterHttpError(h) == IsTornado(h)

\* a handler that never answers from the tract layer
AnswersFromTract_never(h, level) == FALSE

\* whether the handler answers from the tract feature it found: always,
\* except part_004, which answers only when the level is not Undetermined
AnswersFromTract(h, level) ==
    IF h = "landslide4" THEN level # "Undetermined" ELSE TRUE

\* the response bodies; "-" is an absent field, "null" a null one
NoResponse == [status |-> 0, level |-> "-", adminUnit |-> "-", provider |-> "-", error |-> "-"]

ErrorResponse(status, msg) ==
    [status |-> status, level |-> "-", adminUnit |-> "-", provider |-> "-", error |-> msg]

FeatureResponse(unit, level) ==
    [status |-> 200, level |-> level, adminUnit |-> unit,
     provider |-> "FEMA National Risk Index (" \o unit \o ")", error |-> "-"]

\* the "nothing found" branch at the end of each GET
ExhaustedResponse(h, req) ==
    CASE h = "tornado1" ->
            [status |-> 200, level |-> "Undetermined",
             adminUnit |-> IF req.tractOnly THEN "tract" ELSE "null",
             provider |-> "FEMA NRI", error |-> "-"]
      [] h = "tornado2" ->
            [status |-> 200, level |-> "Undetermined", adminUnit |-> "-",
             provider |-> "FEMA NRI", error |-> "-"]
      [] OTHER ->
            IF req.debug THEN ErrorResponse(502, "NRI landslide not available")
            ELSE [status |-> 200, level |-> "Undetermined", adminUnit |-> "-",
                  provider |-> "FEMA NRI", error |-> "-"]

\* the lat and lon query parameters: absent, not a number, in range, out
\* of range (latitude 100)
LatParams == {JsNull, JsStr(<<"a","b","c">>), JsStr(<<"4","0">>), JsStr(<<"1","0","0">>)}

LonParams == {JsNull, JsStr(<<"a","b","c">>), JsStr(<<"2","0">>)}

\* the requests a handler tells apart (mode and tractOnly are read by
\* tornado revision 1 only, address by the tornado handlers only)
VecRequests(h) ==
    [lat : LatParams, lon : LonParams,
     address : IF IsTornado(h) THEN BOOLEAN ELSE {FALSE},
     debug : BOOLEAN,
     mode : IF h = "tornado1" THEN {"label", "score"} ELSE {"label"},
     tractOnly : IF h = "tornado1" THEN BOOLEAN ELSE {FALSE}]

NoCoord == [set |-> FALSE, lat |-> 0, lon |-> 0]

\* what /api/geocode answers for the address
GeocodedCoord == [set |-> TRUE, lat |-> 4000, lon |-> 2000]

VecInit ==
    /\ vh \in VecHandlers
    /\ vreq \in VecRequests(vh)
    /\ vworld \in [tract : PolygonChoices, county : PolygonChoices]
    /\ vpc = "start"
    /\ vstage = 0
    /\ vq = [tract |-> 0, county |-> 0]
    /\ vissued = [tract |-> <<>>, county |-> <<>>]
    /\ vfeat = [tract |-> FALSE, county |-> FALSE]
    /\ vcoord = NoCoord
    /\ vresp = NoResponse

\* no request in flight (the other specifications)
VecIdle ==
    /\ vh = "tornado1"
    /\ vreq = [lat |-> JsNull, lon |-> JsNull, address |-> FALSE, debug |-> FALSE,
               mode |-> "label", tractOnly |-> FALSE]
    /\ vworld = [tract |-> NoPolygon, county |-> NoPolygon]
    /\ vpc = "off"
    /\ vstage = 0
    /\ vq = [tract |-> 0, county |-> 0]
    /\ vissued = [tract |-> <<>>, county |-> <<>>]
    /\ vfeat = [tract |-> FALSE, county |-> FALSE]
    /\ vcoord = NoCoord
    /\ vresp = NoResponse

\* GET up to the first layer query: read the parameters, geocode when an
\* address comes without lat or lon, else Number(lat), Number(lon) and the
\* Number.isFinite test
VecStart ==
    /\ vpc = "start"
    /\ IF IsTornado(vh) /\ vreq.address /\ (~Truthy(vreq.lat) \/ ~Truthy(vreq.lon))
       THEN /\ vpc' = "geocode"
            /\ UNCHANGED <<vstage, vcoord, vresp>>
       ELSE LET latNum == ToNumber(vreq.lat)
                lonNum == ToNumber(vreq.lon)
            IN  IF ~IsFiniteNum(latNum) \/ ~IsFiniteNum(lonNum)
                THEN /\ vresp' = ErrorResponse(400, "Missing lat/lon")
                     /\ vpc' = "done"
                     /\ UNCHANGED <<vstage, vcoord>>
                ELSE /\ vcoord' = [set |-> TRUE, lat |-> latNum.v, lon |-> lonNum.v]
                     /\ vpc' = "tract"
                     /\ vstage' = 1
                     /\ UNCHANGED vresp
    /\ UNCHANGED <<vh, vreq, vworld, vq, vfeat, vissued>>

\* geocodeFromAddress: the coordinate of the address, or a throw that GET
\* turns into a 400
VecGeocode ==
    /\ vpc = "geocode"
    /\ \E ok \in BOOLEAN :
         IF ok
         THEN /\ vcoord' = GeocodedCoord
              /\ vpc' = "tract"
              /\ vstage' = 1
              /\ UNCHANGED vresp
         ELSE /\ vresp' = ErrorResponse(400, "geocode failed")
              /\ vpc' = "done"
              /\ UNCHANGED <<vstage, vcoord>>
    /\ UNCHANGED <<vh, vreq, vworld, vq, vfeat, vissued>>

\* what one layer query may come back with; a feature only where the layer
\* has a polygon.  "pending" is a server that never responds: the fetch of
\* query / queryPoint / queryEnvelope / queryAtPoint carries no abort
\* signal and no timer, so the await never settles
QueryOutcomes(unit) ==
    {"empty", "httperr", "rejected", "pending"}
        \cup (IF vworld[unit].has THEN {"feature"} ELSE {})

\* the handler is done with a layer without an answer: on to the county, or
\* the "nothing found" response
LeaveLayer(unit) ==
    IF unit = "tract" /\ ~(vh = "tornado1" /\ vreq.tractOnly)
    THEN /\ vpc' = "county"
         /\ vstage' = 1
         /\ UNCHANGED vresp
    ELSE /\ vpc' = "done"
         /\ vresp' = ExhaustedResponse(vh, vreq)
         /\ UNCHANGED vstage

\* one query of pickFeature / queryPoint / queryEnvelope / queryAtPoint on
\* a layer and what GET does with its result
VecQuery(unit) ==
    /\ vpc = unit
    /\ vq' = [vq EXCEPT ![unit] = @ + 1]
    /\ vissued' = [vissued EXCEPT ![unit] = Append(@, Stages(vh)[vstage])]
    /\ \E out \in QueryOutcomes(unit) :
         IF out = "pending"
         THEN /\ vpc' = "hung"
              /\ UNCHANGED <<vstage, vfeat, vresp>>
         ELSE IF out = "rejected" /\ ~CatchesFetch(vh)
         THEN /\ vresp' = ErrorResponse(500, "unhandled rejection")
              /\ vpc' = "done"
              /\ UNCHANGED <<vstage, vfeat>>
         ELSE IF out = "feature"
         THEN /\ vfeat' = [vfeat EXCEPT ![unit] = TRUE]
              /\ LET level == FeatureLevel(vh, vworld[unit], vreq.mode)
                 IN  IF unit = "county" \/ AnswersFromTract(vh, level)
                     THEN /\ vresp' = FeatureResponse(unit, level)
                          /\ vpc' = "done"
                          /\ UNCHANGED vstage
                     ELSE LeaveLayer(unit)
         ELSE /\ UNCHANGED vfeat
              /\ IF /\ vstage < Len(Stages(vh))
                    /\ (out = "empty" \/ ContinuesAfterHttpError(vh))
                 THEN /\ vstage' = vstage + 1
                      /\ UNCHANGED <<vpc, vresp>>
                 ELSE LeaveLayer(unit)
    /\ UNCHANGED <<vh, vreq, vworld, vcoord>>

VecQueryTract == VecQuery("tract")

VecQueryCounty == VecQuery("county")

(***************************************************************************)
(* The page (app/page.tsx, second revision, and the revision kept in       *)
(* part_000): classifyFlood and onCheck.                                   *)
(***************************************************************************)
PageVersions == {"page2", "part000"}

\* an NFHL feature: the attributes classifyFlood reads (JsNull when absent)
FloodFeature(zone, subty, sfha) ==
    [hasAttrs |-> TRUE, FLD_ZONE |-> zone, ZONE_SUBTY |-> subty, SFHA_TF |-> sfha]

\* evalOne of classifyFlood (page.tsx), which is also the body of the
\* part_000 revision: the branch of the if-chain a feature takes; digitRule
\* tells the two ways of testing A1..A99 apart
FloodBranch(a, digitRule) ==
    LET zraw == IF ~IsNullish(a.FLD_ZONE) THEN ToStr(a.FLD_ZONE)
                ELSE IF ~IsNullish(a.ZONE_SUBTY) THEN ToStr(a.ZONE_SUBTY)
                ELSE <<"N","/","A">>
        zone == ToUpperCase(zraw)
        subty == ToUpperCase(IF IsNullish(a.ZONE_SUBTY) THEN <<>> ELSE ToStr(a.ZONE_SUBTY))
        inSFHA ==
            \/ a.SFHA_TF = JsTrue
            \/ a.SFHA_TF = JsStr(<<"T">>) \/ a.SFHA_TF = JsStr(<<"Y">>)
            \/ StartsWith(zone, <<"A">>) \/ StartsWith(zone, <<"V">>)
        isFloodway == Includes(subty, <<"F","L","O","O","D","W","A","Y">>)
        isShadedX ==
            /\ zone = <<"X">>
            /\ \/ Includes(subty, <<"0",".","2">>)
               \/ Includes(subty, <<"S","H","A","D","E","D">>)
        isA ==
            \/ zone \in {<<"A","O">>, <<"A","H">>, <<"A","E">>, <<"A">>, <<"A","9","9">>}
            \/ IF digitRule = "regex"
               THEN Len(zone) >= 2 /\ zone[1] = "A" /\ IsDigit(zone[2])
               ELSE \/ StartsWith(zone, <<"A","1">>) \/ StartsWith(zone, <<"A","2">>)
                    \/ StartsWith(zone, <<"A","3">>)
    IN  IF StartsWith(zone, <<"V">>) THEN "coastal"
        ELSE IF isFloodway THEN "floodway"
        ELSE IF isA THEN "sfha"
        ELSE IF isShadedX THEN "shadedX"
        ELSE IF zone = <<"X">> THEN "X"
        ELSE IF zone = <<"D">> THEN "D"
        ELSE IF inSFHA THEN "otherSfha" ELSE "other"

\* the level each branch of evalOne assigns
FloodBranchLevel(branch) ==
    CASE branch = "coastal" -> "Very High"
      [] branch \in {"floodway", "sfha", "otherSfha"} -> "High"
      [] branch = "shadedX" -> "Moderate"
      [] branch \in {"X", "other"} -> "Low"
      [] branch = "D" -> "Undetermined"

\* one note for every branch
FloodBranchNote_generic(branch) == "See FEMA NFHL details"

\* the note each branch of evalOne assigns
FloodBranchNote(branch) ==
    CASE branch = "coastal" -> "Coastal high hazard (wave action)"
      [] branch = "floodway" -> "Regulatory floodway (within SFHA)"
      [] branch = "sfha" -> "Special Flood Hazard Area (1% annual chance)"
      [] branch = "shadedX" -> "0.2% annual chance flood (Zone X shaded)"
      [] branch = "X" -> "Outside SFHA (Zone X unshaded)"
      [] branch = "D" -> "Flood data not available (Zone D)"
      [] OTHER -> "See FEMA NFHL details"

\* the level evalOne gives a feature
FloodEvalOne(a, digitRule) == FloodBranchLevel(FloodBranch(a, digitRule))

\* rank of classifyFlood (page.tsx)
FloodRank(level) ==
    CASE level = "Very High" -> 5
      [] level = "High" -> 4
      [] level = "Moderate" -> 3
      [] level = "Low" -> 2
      [] OTHER -> 1

\* classifyFlood of page.tsx: the level of the first feature of highest rank
RECURSIVE FloodBest(_, _)
FloodBest(features, best) ==
    IF features = <<>> THEN best
    ELSE LET f == Head(features)
             cur == FloodEvalOne(f, "regex")
         IN  IF f.hasAttrs /\ FloodRank(cur) > (IF best = "none" THEN 0 ELSE FloodRank(best))
             THEN FloodBest(Tail(features), cur)
             ELSE FloodBest(Tail(features), best)

classifyFlood_page2(features) ==
    IF features = <<>> THEN "Very Low"
    ELSE LET best == FloodBest(features, "none")
         IN  IF best = "none" THEN "Very Low" ELSE best

\* classifyFlood of part_000: the first feature only
classifyFlood_part000(features) ==
    IF features = <<>> THEN "Very Low"
    ELSE IF features[1].hasAttrs
         THEN FloodEvalOne(features[1], "prefix")
         ELSE FloodEvalOne(FloodFeature(JsNull, JsNull, JsNull), "prefix")

classifyFlood(ver, features) ==
    IF ver = "page2" THEN classifyFlood_page2(features) ELSE classifyFlood_part000(features)

\* the cards, in the order onCheck reads the settled requests
Hazards == <<"flood", "eq", "ls", "wf", "heat", "cold", "hurr", "tor">>

HazardSet == {Hazards[i] : i \in 1..Len(Hazards)}

\* how one hazard request settles: fulfilled with a 2xx JSON body ("ok"),
\* with a 2xx JSON body without a level, with a 2xx body that is not JSON,
\* with a non-2xx JSON body, with a non-2xx body that is not JSON (the
\* framework's error page), or rejected
SettleKinds == {"ok", "ok_nolevel", "ok_nonjson", "nonok", "nonok_nonjson", "rejected"}

\* every way the eight requests settle with at most n of them not "ok"
SettleCombos(n) ==
    UNION {{[h \in HazardSet |-> IF h \in S THEN g[h] ELSE "ok"] :
                g \in [S -> SettleKinds \ {"ok"}]} :
           S \in {X \in SUBSET HazardSet : Cardinality(X) <= n}}

\* the ways the eight requests of one run may settle
SettledRequests == SettleCombos(MaxFailed)

\* the features of the flood facade's body and the level in the others'
ServedFloodFeatures == <<FloodFeature(JsStr(<<"A","E">>), JsNull, JsStr(<<"T">>))>>

ServedLevel(h) ==
    CASE h = "eq" -> "Moderate"
      [] h = "ls" -> "Low"
      [] h = "wf" -> "High"
      [] h = "heat" -> "Very High"
      [] h = "cold" -> "Very Low"
      [] h = "hurr" -> "Not Applicable"
      [] h = "tor" -> "Low"

AllCards(level) == [h \in HazardSet |-> level]

PageInit ==
    /\ pver \in PageVersions
    /\ ppc = "init"
    /\ ploading = "idle"
    /\ pout = AllCards("none")
    /\ pidx = 0
    /\ plevel = AllCards("null")
    /\ perror = "null"
    /\ pruns = 0

\* the page is not in use (the other specifications)
PageIdle ==
    /\ pver = "page2"
    /\ ppc = "off"
    /\ ploading = "idle"
    /\ pout = AllCards("none")
    /\ pidx = 0
    /\ plevel = AllCards("null")
    /\ perror = "null"
    /\ pruns = 0

\* an onCheck whose setLoading("idle") is the last statement of the try
\* block
LoadingAtEnd_tryOnly(thrown, loading) == IF thrown THEN loading ELSE "idle"

\* finally { setLoading("idle") }: after the try block and after the catch
LoadingAtEnd(thrown, loading) == "idle"

\* a page whose button and Enter key are always live
CanStart_always(loading) == TRUE

\* disabled={loading !== "idle"} on the button, loading === "idle" in the
\* input's onKeyDown
CanStart(loading) == loading = "idle"

\* the Check button (disabled unless loading is idle) or the Enter key
\* (ignored unless loading is idle) starts onCheck: the banner and the cards
\* are reset; an address that parses as "lat,lon" goes straight to the
\* hazard requests, any other is geocoded first
PageCheck ==
    /\ ppc # "off"
    /\ CanStart(ploading)
    /\ pruns' = pruns + 1
    /\ perror' = "null"
    /\ plevel' = AllCards("null")
    /\ pout' = AllCards("none")
    /\ pidx' = 0
    /\ \E direct \in BOOLEAN :
         IF direct
         THEN ploading' = "fetch" /\ ppc' = "fetch"
         ELSE ploading' = "geocode" /\ ppc' = "geocode"
    /\ UNCHANGED pver

\* /api/geocode answers, or fails (rejected, body not JSON, or not OK): the
\* failure is thrown, caught (setError) and loading goes back to idle
PageGeocode ==
    /\ ppc = "geocode"
    /\ \E ok \in BOOLEAN :
         IF ok
         THEN /\ ploading' = "fetch"
              /\ ppc' = "fetch"
              /\ UNCHANGED perror
         ELSE /\ perror' = "Error fetching coordinates."
              /\ ploading' = LoadingAtEnd(TRUE, ploading)
              /\ ppc' = "finished"
    /\ pruns' = IF ppc' = "finished" THEN pruns - 1 ELSE pruns
    /\ UNCHANGED <<pver, pout, pidx, plevel>>

\* Promise.allSettled of the eight requests resolves
PageSettle ==
    /\ ppc = "fetch"
    /\ pout' \in SettledRequests
    /\ pidx' = 1
    /\ ppc' = "read"
    /\ UNCHANGED <<pver, ploading, plevel, perror, pruns>>

\* only the wildfire card of page.tsx reads its body with safeJson; every
\* other card awaits r.json(), which throws on a body that is not JSON
ReadsSafely(ver, h) == ver = "page2" /\ h = "wf"

\* the level a card is given when its request failed
FailedLevel(ver) == IF ver = "page2" THEN "null" ELSE "Undetermined"

\* classifyFlood on the features of the flood facade's body, and on a body
\* without features
FloodCardLevel ==
    [ver \in PageVersions |->
        [served \in BOOLEAN |->
            classifyFlood(ver, IF served THEN ServedFloodFeatures ELSE <<>>)]]

\* the level a card is given from a 2xx JSON body
BodyLevel(ver, h, kind) ==
    IF h = "flood"
    THEN FloodCardLevel[ver][kind = "ok"]
    ELSE IF kind = "ok" THEN ServedLevel(h)
    ELSE IF h = "eq" THEN "null"
    ELSE "Undetermined"

\* what reading one settled request does to its card: the level set, or
\* Thrown when awaiting the body throws
ReadCard(ver, h, kind) ==
    IF kind = "rejected" THEN FailedLevel(ver)
    ELSE IF kind \in {"ok_nonjson", "nonok_nonjson"}
         THEN IF ReadsSafely(ver, h) THEN FailedLevel(ver) ELSE Thrown
    ELSE IF kind = "nonok" THEN FailedLevel(ver)
    ELSE BodyLevel(ver, h, kind)

\* onCheck reads the next settled request; a throw leaves the remaining
\* cards as they are, sets the banner (catch) and ends the run (finally)
PageRead ==
    /\ ppc = "read"
    /\ LET h == Hazards[pidx]
           r == ReadCard(pver, h, pout[h])
       IN  IF r = Thrown
           THEN /\ perror' = "Unexpected token"
                /\ ploading' = LoadingAtEnd(TRUE, ploading)
                /\ ppc' = "finished"
                /\ UNCHANGED <<plevel, pidx>>
           ELSE /\ plevel' = [plevel EXCEPT ![h] = r]
                /\ UNCHANGED perror
                /\ IF pidx = Len(Hazards)
                   THEN /\ ploading' = LoadingAtEnd(FALSE, ploading)
                        /\ ppc' = "finished"
                        /\ UNCHANGED pidx
                   ELSE /\ pidx' = pidx + 1
                        /\ UNCHANGED <<ploading, ppc>>
    /\ pruns' = IF ppc' = "finished" THEN pruns - 1 ELSE pruns
    /\ UNCHANGED <<pver, pout>>

(***************************************************************************)
(* wildfire/homes/route.ts, first revision: tryVariants, sampleNearest,    *)
(* GET.                                                                    *)
(***************************************************************************)
\* SOURCES, in order
WfSources == <<"AGOL Risk_to_Homes", "USFS RPS">>

\* RULES x bands of tryVariants, flattened in loop order: the rule labels
WfRuleLabels(mode) ==
    IF mode = "deep"
    THEN <<"RPS", "RPS_Class", "ClassRPS", "ClassifiedRPS", "none">>
    ELSE <<"RPS", "RPS_Class">>

\* bands per rule: [undefined, 0, 1, 2, 3] in deep mode, [undefined] in fast
WfBandsPerRule(mode) == IF mode = "deep" THEN 5 ELSE 1

WfVariantCount(mode) == Len(WfRuleLabels(mode)) * WfBandsPerRule(mode)

\* the rule label of the k-th variant
WfVariantLabel(mode, k) == WfRuleLabels(mode)[((k - 1) \div WfBandsPerRule(mode)) + 1]

\* /class/i.test(rr.label)
IsClassLabel(label) == label \in {"RPS_Class", "ClassRPS", "ClassifiedRPS"}

\* MAX_RADIUS_M / STEP_M: 180/60 in fast mode, 300/30 in deep mode
WfRingCount(mode) == IF mode = "deep" THEN 300 \div 30 ELSE 180 \div 60

\* MAX_ATTEMPTS
WfMaxAttempts(mode) == IF mode = "deep" THEN 120 ELSE 60

\* n = Math.max(8, Math.round((2 * Math.PI * radius) / STEP_M)) on ring k
\* (radius = k * STEP_M), with Math.PI to six digits
WfRingSamples(k) ==
    LET n == (2 * 314159 * k + 50000) \div 100000
    IN  IF n < 8 THEN 8 ELSE n

\* a bucketing that rounds to the nearest class instead of flooring
byteToClass_rounded(h) ==
    LET cls == 1 + ((h * 5 + 12800) \div 25600)
    IN  IF cls < 1 THEN 1 ELSE IF cls > 5 THEN 5 ELSE cls

\* byteToClass: 1 + floor(vByte * 5 / 256), clamped to 1..5 (h is vByte in
\* hundredths)
byteToClass(h) ==
    LET cls == 1 + ((h * 5) \div 25600)
    IN  IF cls < 1 THEN 1 ELSE IF cls > 5 THEN 5 ELSE cls

\* str.split(",")[0]
RECURSIVE SplitFirst(_)
SplitFirst(str) ==
    IF str = <<>> \/ Head(str) = "," THEN <<>> ELSE <<Head(str)>> \o SplitFirst(Tail(str))

\* what one getSamples call of tryVariants comes to: kind is how the call
\* ended, raw the value of samples[0] (JsNull when there is no sample).
\* A failed call (HTTP error, timeout, body that does not parse) and a
\* no-data answer both give "next"; a usable value gives its type and value
\* (hundredths).
VariantResult(label, kind, raw) ==
    LET ok == kind = "answered"
        raw1 == IF ~ok THEN JsNull
                ELSE IF raw.t = "str"
                     THEN IF Includes(ToLowerCase(raw.s), <<"n","a","n">>) THEN JsNull
                          ELSE JsStr(SplitFirst(raw.s))
                     ELSE raw
        num == ToNumber(raw1)
        isNum == IsFiniteNum(num) \/ IsHuge(num)
    IN  IF ~ok \/ ~isNum \/ IsHuge(num) \/ num.v = 0 \/ num.v = -999900
        THEN [type |-> "next", value |-> 0]
        ELSE IF num.v % 100 = 0 /\ num.v >= 100 /\ num.v <= 500
        THEN [type |-> "class", value |-> num.v]
        ELSE IF IsClassLabel(label) /\ num.v >= 0 /\ num.v <= 25500
        THEN [type |-> "class", value |-> 100 * byteToClass(num.v)]
        ELSE IF num.v <= 150 THEN [type |-> "rps", value |-> num.v * 1020]
        ELSE IF num.v > 0 /\ num.v <= 10000 THEN [type |-> "rps", value |-> (num.v * 102) \div 10]
        ELSE IF num.v > 102000 /\ num.v <= 200000
             THEN [type |-> "rps", value |-> (num.v * 1020) \div 2000]
        ELSE [type |-> "rps", value |-> num.v]

\* how a getSamples call may end
WfCallKinds == {"answered", "httperr", "timeout", "unparseable"}

\* the sample values an answering server may send: none, the no-data
\* values, a class, a byte, an index in 0-1, in 0-100 and in 0-1020
WfRawValues ==
    {JsNull, JsNum(0), JsNum(-999900), JsStr(s_NaN), JsNum(300), JsStr(<<"4">>),
     JsNum(20000), JsNum(50), JsNum(4500), JsNum(70000)}

\* the GET response
WfNoResponse ==
    [status |-> 0, level |-> "-", hasValue |-> FALSE, value |-> 0, provider |-> "-",
     debug |-> FALSE]

WfResponse(type, value, provider, debug) ==
    [status |-> 200,
     level |-> IF type = "class" THEN levelFromClassCode(JsNum(value))
               ELSE IF type = "rps" THEN levelFromRps(JsNum(value))
               ELSE "Not Applicable",
     hasValue |-> type \in {"class", "rps"},
     value |-> IF type \in {"class", "rps"} THEN value ELSE 0,
     provider |-> IF provider = "null" THEN "Wildfire Risk to Communities (ImageServer)"
                  ELSE provider,
     debug |-> debug]

WfErrorResponse(status) ==
    [status |-> status, level |-> "-", hasValue |-> FALSE, value |-> 0, provider |-> "-",
     debug |-> FALSE]

\* the requests: every combination of parameters in fast mode, the plain
\* request in deep mode
WfRequests ==
    {r \in [lat : {JsNull, JsStr(<<"a","b","c">>), JsStr(<<"4","0">>)},
            lon : {JsNull, JsStr(<<"2","0">>)},
            address : BOOLEAN, debug : BOOLEAN, deep : BOOLEAN] :
        r.deep => (~IsNullish(r.lat) /\ ~IsNullish(r.lon) /\ ~r.address /\ ~r.debug)}

\* the lat, lon parameters of sampleNearest: a sample point is written as
\* the sequence of offsets (ring, sample on the ring) that lead to it from
\* them, so this is the parameters' own point
Origin == <<>>

\* a ring loop that offsets the previous sample point
RingBase_previous(origin, previous) == previous

\* the point the ring loop offsets: lat, lon in lat + dLat * Math.sin(ang),
\* lon + dLon * Math.cos(ang)
RingBase(origin, previous) == origin

\* lt, ln of the ring loop: sample i of ring k (radius k * STEP_M, angle
\* 2 pi i / n)
RingPoint(origin, previous, k, i) ==
    Append(RingBase(origin, previous), [ring |-> k, i |-> i])

\* DEFAULT_MODE is "fast" unless WFR_MODE says otherwise; ?deep=1 forces deep
WfMode(req) == IF req.deep THEN "deep" ELSE "fast"

WfInit ==
    /\ wreq \in WfRequests
    /\ wpc = "start"
    /\ wsrc = 1
    /\ wring = 0
    /\ wi = 0
    /\ wvar = 1
    /\ wattempts = 0
    /\ wprobed = 0
    /\ wpoint = Origin
    /\ wallFailed = TRUE
    /\ wptAnswered = FALSE
    /\ wgap = FALSE
    /\ wresp = WfNoResponse

\* no wildfire request in flight (the other specifications)
WfIdle ==
    /\ wreq = [lat |-> JsNull, lon |-> JsNull, address |-> FALSE, debug |-> FALSE,
               deep |-> FALSE]
    /\ wpc = "off"
    /\ wsrc = 1
    /\ wring = 0
    /\ wi = 0
    /\ wvar = 1
    /\ wattempts = 0
    /\ wprobed = 0
    /\ wpoint = Origin
    /\ wallFailed = TRUE
    /\ wptAnswered = FALSE
    /\ wgap = FALSE
    /\ wresp = WfNoResponse

\* GET up to sampleNearest: geocode when an address comes without lat or
\* lon, else Number(lat), Number(lon) and the Number.isFinite test
WfStart ==
    /\ wpc = "start"
    /\ IF wreq.address /\ (~Truthy(wreq.lat) \/ ~Truthy(wreq.lon))
       THEN wpc' = "geocode" /\ UNCHANGED wresp
       ELSE IF ~IsFiniteNum(ToNumber(wreq.lat)) \/ ~IsFiniteNum(ToNumber(wreq.lon))
            THEN wpc' = "done" /\ wresp' = WfErrorResponse(400)
            ELSE wpc' = "sample" /\ UNCHANGED wresp
    /\ UNCHANGED <<wreq, wsrc, wring, wi, wvar, wattempts, wallFailed, wptAnswered, wgap,
                   wprobed, wpoint>>

\* geocodeFromAddress: a coordinate, or a throw that GET turns into a 400
WfGeocode ==
    /\ wpc = "geocode"
    /\ \E ok \in BOOLEAN :
         IF ok THEN wpc' = "sample" /\ UNCHANGED wresp
         ELSE wpc' = "done" /\ wresp' = WfErrorResponse(400)
    /\ UNCHANGED <<wreq, wsrc, wring, wi, wvar, wattempts, wallFailed, wptAnswered, wgap,
                   wprobed, wpoint>>

\* sampleNearest after tryVariants found nothing at the current sample
\* point: the next ring sample of this source (counted in attempts, the
\* search ending when the count reaches MAX_ATTEMPTS), or the direct point
\* of the next source, or the end of the search
\* a sampler without the cap
CapReached_never(attempts, mode) == FALSE

\* ++attempts >= MAX_ATTEMPTS
CapReached(attempts, mode) == attempts >= WfMaxAttempts(mode)

WfAfterPoint(answered) ==
    LET mode == WfMode(wreq)
        lastOfRing == wring > 0 /\ wi + 1 >= WfRingSamples(wring)
        toRing == wring = 0 \/ ~lastOfRing \/ wring < WfRingCount(mode)
        giveUp(provider, counted) ==
            /\ wpc' = "done"
            /\ wresp' = WfResponse("unknown", 0, provider, wreq.debug)
            /\ wattempts' = counted
            /\ UNCHANGED <<wsrc, wring, wi, wpoint>>
    IN  /\ wgap' = (wgap \/ ~answered)
        /\ wptAnswered' = FALSE
        /\ wvar' = 1
        /\ IF toRing
           THEN IF CapReached(wattempts + 1, mode)
                THEN giveUp(WfSources[wsrc], wattempts + 1)
                ELSE /\ wattempts' = wattempts + 1
                     /\ wring' = IF wring = 0 \/ lastOfRing THEN wring + 1 ELSE wring
                     /\ wi' = IF wring = 0 \/ lastOfRing THEN 0 ELSE wi + 1
                     /\ wpoint' = RingPoint(Origin, wpoint, wring', wi')
                     /\ UNCHANGED <<wsrc, wpc, wresp>>
           ELSE IF wsrc < Len(WfSources)
                THEN /\ wsrc' = wsrc + 1
                     /\ wring' = 0
                     /\ wi' = 0
                     /\ wpoint' = Origin
                     /\ UNCHANGED <<wattempts, wpc, wresp>>
                ELSE giveUp("null", wattempts)

\* one getSamples call of tryVariants at the current sample point, and what
\* tryVariants, sampleNearest and GET do with it
WfCall ==
    /\ wpc = "sample"
    /\ wprobed' = IF wring > 0 /\ wvar = 1 THEN wprobed + 1 ELSE wprobed
    /\ \E kind \in WfCallKinds :
       \E raw \in (IF kind = "answered" THEN WfRawValues ELSE {JsNull}) :
         LET mode == WfMode(wreq)
             res == VariantResult(WfVariantLabel(mode, wvar), kind, raw)
             answered == wptAnswered \/ kind = "answered"
         IN  /\ wallFailed' = (wallFailed /\ kind # "answered")
             /\ IF res.type # "next"
                THEN /\ wpc' = "done"
                     /\ wresp' = WfResponse(res.type, res.value, WfSources[wsrc], wreq.debug)
                     /\ wptAnswered' = answered
                     /\ UNCHANGED <<wsrc, wring, wi, wvar, wattempts, wgap, wpoint>>
                ELSE IF wvar < WfVariantCount(mode)
                THEN /\ wvar' = wvar + 1
                     /\ wptAnswered' = answered
                     /\ UNCHANGED <<wsrc, wring, wi, wattempts, wgap, wpc, wresp, wpoint>>
                ELSE WfAfterPoint(answered)
    /\ UNCHANGED wreq

(***************************************************************************)
(* wildfire/homes/route.ts, third revision: LEVEL_SCORE, getVariantValue,  *)
(* readBothAndChoose.                                                      *)
(***************************************************************************)
\* a level chosen to order nothing (every level scores 0)
LEVEL_SCORE_flat(level) == 0

\* LEVEL_SCORE
LEVEL_SCORE(level) ==
    CASE level = "Not Applicable" -> 0
      [] level = "Undetermined" -> 0
      [] level = "Very Low" -> 1
      [] level = "Low" -> 2
      [] level = "Moderate" -> 3
      [] level = "High" -> 4
      [] level = "Very High" -> 5

\* the result of getVariantValue when the call failed (HTTP error, rejected
\* or aborted fetch, body that JSON.parse rejects)
VariantFailed == [ok |-> FALSE, hasValue |-> FALSE, value |-> 0, type |-> "unknown"]

\* the result of getVariantValue for a no-data sample
VariantNoData == [ok |-> TRUE, hasValue |-> FALSE, value |-> 0, type |-> "unknown"]

VariantValue(type, value) == [ok |-> TRUE, hasValue |-> TRUE, value |-> value, type |-> type]

\* getVariantValue: one getSamples call with rendering rule label ("RPS" or
\* "RPS_Class"); kind is how the call ended, raw the value of samples[0]
\* (JsNull when there is no sample); values in hundredths
getVariantValue(label, kind, raw) ==
    LET raw1 == IF raw.t = "str"
                THEN IF Includes(ToLowerCase(raw.s), <<"n","a","n">>) THEN JsNull
                     ELSE JsStr(SplitFirst(raw.s))
                ELSE raw
        num == ToNumber(raw1)
        isNum == IsFiniteNum(num) \/ IsHuge(num)
        rpsOf(v) == IF v <= 150 THEN v * 1020
                    ELSE IF v > 0 /\ v <= 10000 THEN (v * 102) \div 10
                    ELSE IF v > 102000 /\ v <= 200000 THEN (v * 1020) \div 2000
                    ELSE v
        \* the RPS rule also reads a value in (100, 255] as a byte
        rpsOfIndex(v) == IF v > 10000 /\ v <= 25500 THEN (v * 1020) \div 255
                         ELSE rpsOf(v)
    IN  IF kind # "answered" THEN VariantFailed
        ELSE IF ~isNum \/ IsHuge(num) \/ num.v = 0 \/ num.v = -999900 THEN VariantNoData
        ELSE IF label = "RPS_Class"
        THEN IF num.v % 100 = 0 /\ num.v >= 100 /\ num.v <= 500
             THEN VariantValue("class", num.v)
             ELSE IF num.v >= 0 /\ num.v <= 25500
             THEN VariantValue("class", 100 * byteToClass(num.v))
             ELSE VariantValue("rps", rpsOf(num.v))
        ELSE VariantValue("rps", rpsOfIndex(num.v))

\* a readBothAndChoose that takes its level from the RPS reading alone
readBothAndChoose_rpsOnly(rps, cls) ==
    LET rpsValid == rps.ok /\ rps.hasValue
        clsValid == cls.ok /\ cls.hasValue
    IN  IF rpsValid
        THEN [level |-> levelFromRps(JsNum(rps.value)), hasValue |-> TRUE,
              value |-> rps.value, rule |-> "RPS", hasAny |-> TRUE]
        ELSE [level |-> "Not Applicable", hasValue |-> FALSE, value |-> 0,
              rule |-> "null", hasAny |-> clsValid]

\* readBothAndChoose, from the results of its two getVariantValue calls
readBothAndChoose(rps, cls) ==
    LET rpsValid == rps.ok /\ rps.hasValue
        clsValid == cls.ok /\ cls.hasValue
        first == IF rpsValid
                 THEN [level |-> levelFromRps(JsNum(rps.value)), hasValue |-> TRUE,
                       value |-> rps.value, rule |-> "RPS"]
                 ELSE [level |-> "Not Applicable", hasValue |-> FALSE, value |-> 0,
                       rule |-> "null"]
        lv == IF cls.type = "class" THEN levelFromClassCode(JsNum(cls.value))
              ELSE levelFromRps(JsNum(cls.value))
        best == IF clsValid /\ LEVEL_SCORE(lv) > LEVEL_SCORE(first.level)
                THEN [level |-> lv, hasValue |-> TRUE, value |-> cls.value,
                      rule |-> "RPS_Class"]
                ELSE first
    IN  [level |-> best.level, hasValue |-> best.hasValue, value |-> best.value,
         rule |-> best.rule, hasAny |-> rpsValid \/ clsValid]

\* how a getSamples call of the third revision may end, and what an
\* answering server may send as samples[0].value
ReadOutcomes ==
    [kind : {"httperr", "timeout", "unparseable"}, raw : {JsNull}]
      \cup [kind : {"answered"}, raw : WfRawValues \cup {JsNum(500), JsNum(90000)}]

NoReading == [level |-> "-", hasValue |-> FALSE, value |-> 0, rule |-> "null", hasAny |-> FALSE]

\* one call of readBothAndChoose at a point: the two getSamples calls have
\* ended, the choice is still to be made
ReadInit ==
    /\ bpc = "pending"
    /\ brps \in ReadOutcomes
    /\ bcls \in ReadOutcomes
    /\ bout = NoReading

\* no readBothAndChoose call under way (the other specifications)
ReadIdle ==
    /\ bpc = "off"
    /\ brps = [kind |-> "timeout", raw |-> JsNull]
    /\ bcls = [kind |-> "timeout", raw |-> JsNull]
    /\ bout = NoReading

ReadChoose ==
    /\ bpc = "pending"
    /\ bpc' = "returned"
    /\ bout' = readBothAndChoose(getVariantValue("RPS", brps.kind, brps.raw),
                                 getVariantValue("RPS_Class", bcls.kind, bcls.raw))
    /\ UNCHANGED <<brps, bcls>>

(***************************************************************************)
(* classifyFlood as a function: the level and the note it returns, in the  *)
(* page.tsx revisions (second: "page2", third: "page3") and in part_000.   *)
(***************************************************************************)
\* classifyFlood of the third page.tsx revision: the branch the first
\* feature takes
FloodBranch_page3(a) ==
    LET zraw == IF ~IsNullish(a.FLD_ZONE) THEN ToStr(a.FLD_ZONE)
                ELSE IF ~IsNullish(a.ZONE_SUBTY) THEN ToStr(a.ZONE_SUBTY)
                ELSE <<"N","/","A">>
        zone == ToUpperCase(zraw)
        subty == ToUpperCase(IF IsNullish(a.ZONE_SUBTY) THEN <<>> ELSE ToStr(a.ZONE_SUBTY))
        inSFHA ==
            \/ a.SFHA_TF = JsTrue
            \/ a.SFHA_TF = JsStr(<<"T">>) \/ a.SFHA_TF = JsStr(<<"Y">>)
            \/ StartsWith(zone, <<"A">>) \/ StartsWith(zone, <<"V","E">>)
    IN  IF StartsWith(zone, <<"V","E">>) THEN "coastal"
        ELSE IF \/ zone \in {<<"A","O">>, <<"A","H">>, <<"A","E">>, <<"A">>, <<"A","9","9">>}
                \/ StartsWith(zone, <<"A","1">>) \/ StartsWith(zone, <<"A","2">>)
                \/ StartsWith(zone, <<"A","3">>)
             THEN "sfha"
        ELSE IF zone = <<"X">> /\ Includes(subty, <<"0",".","2">>) THEN "shadedX"
        ELSE IF zone = <<"X">> THEN "X"
        ELSE IF zone = <<"D">> THEN "D"
        ELSE IF zone = <<"N","/","A">> THEN "none"
        ELSE IF inSFHA THEN "otherSfha" ELSE "other"

\* the level and the note of each branch in the third page.tsx revision
FloodResult_page3(branch) ==
    CASE branch = "coastal" -> [level |-> "Very High", note |-> "Coastal high hazard (wave action)"]
      [] branch = "sfha" ->
            [level |-> "High", note |-> "Special Flood Hazard Area (1% annual chance)"]
      [] branch = "shadedX" ->
            [level |-> "Moderate", note |-> "0.2% annual chance flood (X shaded)"]
      [] branch = "X" -> [level |-> "Low", note |-> "Outside SFHA (Zone X)"]
      [] branch = "D" -> [level |-> "Moderate", note |-> "Undetermined risk (Zone D)"]
      [] branch = "none" -> [level |-> "Very Low", note |-> "No NFHL polygon returned here"]
      [] branch = "otherSfha" -> [level |-> "High", note |-> "See FEMA NFHL details"]
      [] OTHER -> [level |-> "Low", note |-> "See FEMA NFHL details"]

FloodVersions == PageVersions \cup {"page3"}

\* the attributes of a feature without attributes read as {}
FloodAttrs(f) == IF f.hasAttrs THEN f ELSE FloodFeature(JsNull, JsNull, JsNull)

\* the features with attributes whose evalOne level is the given one
RECURSIVE FloodFirstOfLevel(_, _)
FloodFirstOfLevel(features, level) ==
    IF features = <<>> THEN FloodFeature(JsNull, JsNull, JsNull)
    ELSE IF Head(features).hasAttrs /\ FloodEvalOne(Head(features), "regex") = level
         THEN Head(features)
         ELSE FloodFirstOfLevel(Tail(features), level)

\* classifyFlood: what it returns (level and note) for a feature list
classifyFloodResult(ver, features) ==
    IF features = <<>>
    THEN [level |-> "Very Low", note |-> "No NFHL polygon returned here"]
    ELSE CASE ver = "page3" -> FloodResult_page3(FloodBranch_page3(FloodAttrs(features[1])))
           [] ver = "part000" ->
                [level |-> classifyFlood(ver, features),
                 note |-> FloodBranchNote(FloodBranch(FloodAttrs(features[1]), "prefix"))]
           [] ver = "page2" ->
                LET level == classifyFlood(ver, features)
                IN  [level |-> level,
                     note |-> IF FloodBest(features, "none") = "none" THEN ""
                              ELSE FloodBranchNote(
                                     FloodBranch(FloodFirstOfLevel(features, level), "regex"))]

\* the zone / subtype pairs the NFHL layer S_FLD_HAZ_AR publishes (JsNull:
\* attribute absent)
NfhlZones ==
    LET sub(str) == JsStr(str)
        minimal == sub(<<"A","R","E","A"," ","O","F"," ","M","I","N","I","M","A","L">>)
        pct02 == sub(<<"0",".","2"," ","P","C","T">>)
        shaded == sub(<<"X"," ","S","H","A","D","E","D">>)
        floodway == sub(<<"F","L","O","O","D","W","A","Y">>)
    IN  {<<JsStr(<<"X">>), JsNull>>, <<JsStr(<<"X">>), minimal>>, <<JsStr(<<"x">>), minimal>>,
         <<JsStr(<<"X">>), pct02>>, <<JsStr(<<"X">>), shaded>>,
         <<JsStr(<<"V","E">>), JsNull>>, <<JsStr(<<"v","e">>), JsNull>>,
         <<JsStr(<<"V">>), JsNull>>,
         <<JsStr(<<"A","E">>), JsNull>>, <<JsStr(<<"A","E">>), floodway>>,
         <<JsStr(<<"A">>), JsNull>>, <<JsStr(<<"A","O">>), JsNull>>,
         <<JsStr(<<"A","1","2">>), JsNull>>, <<JsStr(<<"A","9","9">>), JsNull>>,
         <<JsStr(<<"D">>), JsNull>>, <<JsNull, JsNull>>, <<JsNull, pct02>>,
         <<JsStr(<<"O","P","E","N"," ","W","A","T","E","R">>), JsNull>>}

NfhlFeatures ==
    {FloodFeature(z[1], z[2], sfha) :
        z \in NfhlZones, sfha \in {JsNull, JsStr(<<"T">>), JsStr(<<"F">>)}}
        \cup {[FloodFeature(JsNull, JsNull, JsNull) EXCEPT !.hasAttrs = FALSE]}

NoFloodResult == [level |-> "-", note |-> "-"]

\* one call of classifyFlood: on no feature, or on one feature, or on the
\* X-unshaded feature followed by one more
FloodInit ==
    /\ cver \in FloodVersions
    /\ cfeatures \in {<<>>} \cup {<<f>> : f \in NfhlFeatures}
                      \cup {<<FloodFeature(JsStr(<<"X">>), JsNull, JsNull), f>> : f \in NfhlFeatures}
    /\ cpc = "pending"
    /\ cout = NoFloodResult

\* no classifyFlood call under way (the other specifications)
FloodIdle ==
    /\ cver = "page2"
    /\ cfeatures = <<>>
    /\ cpc = "off"
    /\ cout = NoFloodResult

FloodClassify ==
    /\ cpc = "pending"
    /\ cpc' = "returned"
    /\ cout' = classifyFloodResult(cver, cfeatures)
    /\ UNCHANGED <<cver, cfeatures>>

(***************************************************************************)
(* fema/query/route.ts: getJson, GET (first revision "query1": layer       *)
(* lookup, buffered point queries, envelope, identify) and GET (second     *)
(* revision "query2": point query, envelope).                              *)
(***************************************************************************)
FemaVersions == {"query1", "query2"}

\* the outbound calls of GET, in order
FemaStages(ver) ==
    IF ver = "query1"
    THEN <<"layers", "query-point-0m", "query-point-5m", "query-point-15m",
           "query-point-40m", "query-envelope", "identify">>
    ELSE <<"query-point", "query-envelope">>

\* how a call to the NFHL server may end: a JSON body with features (or
\* identify results), a JSON body without any, a JSON body with an error
\* member, an empty body, a body that is not JSON (an HTML error page), a
\* rejected fetch
FemaOutcomes == {"features", "empty", "error", "nobody", "html", "rejected"}

\* getJson: r.json() inside try, r.text() inside catch.  An empty body
\* fails to parse and reads as "" afterwards (data = {__nonjson}); a body
\* that is not JSON has been consumed by r.json(), so r.text() rejects and
\* the exception leaves getJson, as a rejected fetch does
getJson(out) ==
    CASE out \in {"html", "rejected"} -> "throws"
      [] out = "nobody" -> "empty"
      [] OTHER -> out

\* await r.json() of the second revision: any body that does not parse throws
ReadJsonDirect(out) ==
    IF out \in {"nobody", "html", "rejected"} THEN "throws" ELSE out

\* the feature lists the server may answer with
FemaFeatureLists ==
    {<<FloodFeature(JsStr(<<"X">>), JsNull, JsStr(<<"F">>))>>,
     <<FloodFeature(JsStr(<<"A","E">>), JsNull, JsStr(<<"T">>)),
       FloodFeature(JsStr(<<"X">>), JsNull, JsStr(<<"F">>))>>}

NoFemaResponse == [status |-> 0, hasFeatures |-> FALSE, features |-> <<>>, debug |-> FALSE]

\* a response of GET; hasFeatures tells a body with a features member
FemaResponse(status, hasFeatures, features, debug) ==
    [status |-> status, hasFeatures |-> hasFeatures, features |-> features, debug |-> debug]

FemaRequests == [lat : {JsNull, JsStr(<<"a","b","c">>), JsStr(<<"4","0">>)}, debug : BOOLEAN]

FemaInit ==
    /\ fver \in FemaVersions
    /\ freq \in FemaRequests
    /\ fpc = "start"
    /\ fstage = 0
    /\ flast = "none"
    /\ fresp = NoFemaResponse

\* no flood query under way (the other specifications)
FemaIdle ==
    /\ fver = "query1"
    /\ freq = [lat |-> JsNull, debug |-> FALSE]
    /\ fpc = "off"
    /\ fstage = 0
    /\ flast = "none"
    /\ fresp = NoFemaResponse

\* GET up to the first outbound call: Number(lat), Number.isFinite
FemaStart ==
    /\ fpc = "start"
    /\ IF ~IsFiniteNum(ToNumber(freq.lat))
       THEN /\ fpc' = "done"
            /\ fresp' = FemaResponse(400, FALSE, <<>>, FALSE)
            /\ UNCHANGED fstage
       ELSE /\ fpc' = "call"
            /\ fstage' = 1
            /\ UNCHANGED fresp
    /\ UNCHANGED <<fver, freq, flast>>

\* one outbound call of the first revision and what GET does with it
FemaCall1 ==
    /\ fpc = "call"
    /\ fver = "query1"
    /\ \E out \in FemaOutcomes, fs \in FemaFeatureLists :
         LET stage == FemaStages(fver)[fstage]
             got == getJson(out)
             debug == freq.debug /\ got # "throws"
             finish(resp) == fpc' = "done" /\ fresp' = resp /\ UNCHANGED fstage
             next == fstage' = fstage + 1 /\ UNCHANGED <<fpc, fresp>>
         IN  /\ flast' = out
             /\ IF got = "throws" THEN finish(FemaResponse(500, FALSE, <<>>, FALSE))
                ELSE IF stage = "layers" THEN next
                ELSE IF got = "features" THEN finish(FemaResponse(200, TRUE, fs, debug))
                ELSE IF stage # "identify" THEN next
                ELSE IF got = "error" THEN finish(FemaResponse(502, FALSE, <<>>, debug))
                ELSE finish(FemaResponse(200, TRUE, <<>>, debug))
    /\ UNCHANGED <<fver, freq>>

\* one outbound call of the second revision and what GET does with it
FemaCall2 ==
    /\ fpc = "call"
    /\ fver = "query2"
    /\ \E out \in FemaOutcomes, fs \in FemaFeatureLists :
         LET stage == FemaStages(fver)[fstage]
             got == ReadJsonDirect(out)
             finish(resp) == fpc' = "done" /\ fresp' = resp /\ UNCHANGED fstage
         IN  /\ flast' = out
             /\ IF got = "throws" THEN finish(FemaResponse(500, FALSE, <<>>, FALSE))
                ELSE IF got = "features" THEN finish(FemaResponse(200, TRUE, fs, FALSE))
                ELSE IF stage = "query-point"
                THEN fstage' = fstage + 1 /\ UNCHANGED <<fpc, fresp>>
                ELSE finish(FemaResponse(200, got = "empty", <<>>, FALSE))
    /\ UNCHANGED <<fver, freq>>

(***************************************************************************)
(* fema/discover/route.ts, second revision: GET, run with debug=1 and      *)
(* without against the same servers.                                       *)
(***************************************************************************)
\* most leaf layers a MapServer lists
MaxLeaves == 2

\* what reading one leaf layer comes to: a polygon layer with the NFHL
\* flood fields (scoreLayer >= 5), another layer, or a fetchJSON that throws
LeafKinds == {"flood", "other", "fails"}

\* one candidate base: whether its layer list can be read, and its leaves
DiscoverBases ==
    {[top |-> "fails", leaves |-> <<>>]}
        \cup {[top |-> "ok", leaves |-> ls] :
                ls \in UNION {[1..n -> LeafKinds] : n \in 0..MaxLeaves}}

\* CANDIDATE_BASES: the two built-in bases, preceded by NFHL_BASE when set
DiscoverWorlds == [1..2 -> DiscoverBases] \cup [1..3 -> DiscoverBases]

NoDiscovery == [status |-> 0, base |-> 0, queries |-> 0]

\* GET from candidate base k on, queries outbound calls having been made:
\* the status, the base whose layer is answered (0: none) and the number of
\* outbound calls
RECURSIVE discoverFrom(_, _, _, _)
discoverFrom(bases, k, queries, debug) ==
    IF k > Len(bases) THEN [status |-> 404, base |-> 0, queries |-> queries]
    ELSE LET b == bases[k]
             made == queries + 1 + Len(b.leaves)
         IN  IF b.top = "fails" THEN discoverFrom(bases, k + 1, queries + 1, debug)
             ELSE IF \E i \in 1..Len(b.leaves) : b.leaves[i] = "flood"
             THEN [status |-> 200, base |-> k, queries |-> made]
             ELSE IF debug THEN [status |-> 404, base |-> 0, queries |-> made]
             ELSE discoverFrom(bases, k + 1, made, debug)

discoverGET(bases, debug) == discoverFrom(bases, 1, 0, debug)

DiscInit ==
    /\ dbases \in DiscoverWorlds
    /\ dpc = "pending"
    /\ don = NoDiscovery
    /\ doff = NoDiscovery

\* no discovery under way (the other specifications)
DiscIdle ==
    /\ dbases = <<>>
    /\ dpc = "off"
    /\ don = NoDiscovery
    /\ doff = NoDiscovery

\* the request with debug=1 and the request without, against the same
\* servers
DiscRun ==
    /\ dpc = "pending"
    /\ dpc' = "returned"
    /\ don' = discoverGET(dbases, TRUE)
    /\ doff' = discoverGET(dbases, FALSE)
    /\ UNCHANGED dbases

(***************************************************************************)
(* wildfire/homes/route.ts, third revision: sampleNearest.                 *)
(***************************************************************************)
\* STEP_M and MAX_RADIUS_M
SampleStep(mode) == IF mode = "deep" THEN 30 ELSE 60

SampleMaxRadius(mode) == IF mode = "deep" THEN 300 ELSE 180

\* how the two getSamples calls of one readBothAndChoose may end: both
\* failing, both no-data, and values of the index and of the class
SampleCalls ==
    [rps : {[kind |-> "timeout", raw |-> JsNull], [kind |-> "answered", raw |-> JsNum(0)],
            [kind |-> "answered", raw |-> JsNum(10)],
            [kind |-> "answered", raw |-> JsNum(70000)]},
     cls : {[kind |-> "httperr", raw |-> JsNull], [kind |-> "answered", raw |-> JsNull],
            [kind |-> "answered", raw |-> JsNum(200)],
            [kind |-> "answered", raw |-> JsNum(500)]}]

\* readBothAndChoose at one point
SampleRead(calls) ==
    readBothAndChoose(getVariantValue("RPS", calls.rps.kind, calls.rps.raw),
                      getVariantValue("RPS_Class", calls.cls.kind, calls.cls.raw))

\* what sampleNearest returns; meters 0 is the point itself, provider "null"
\* the exhausted search
NoSample == [level |-> "-", hasValue |-> FALSE, value |-> 0, meters |-> 0, provider |-> "-"]

SampleResult(res, meters, provider) ==
    [level |-> res.level, hasValue |-> res.hasValue, value |-> res.value,
     meters |-> meters, provider |-> provider]

\* the attempts that body.debug of GET lists for a result: debug holds the
\* variant of the result and the geocode, and no list of attempts
DebugAttempts(res) == <<>>

SampleInit ==
    /\ smode \in {"fast", "deep"}
    /\ spc = "point"
    /\ ssrc = 1
    /\ sradius = 0
    /\ si = 0
    /\ sbest = NoReading
    /\ sfirst = "-"
    /\ sout = NoSample
    /\ scalls = 0

\* no sampleNearest call under way (the other specifications)
SampleIdle ==
    /\ smode = "fast"
    /\ spc = "off"
    /\ ssrc = 1
    /\ sradius = 0
    /\ si = 0
    /\ sbest = NoReading
    /\ sfirst = "-"
    /\ sout = NoSample
    /\ scalls = 0

\* the read at the point itself, on the current source
SamplePoint ==
    /\ spc = "point"
    /\ scalls' = scalls + 2
    /\ \E calls \in SampleCalls :
         LET best == SampleRead(calls)
         IN  IF best.hasAny /\ best.level # "Not Applicable"
             THEN /\ spc' = "done"
                  /\ sout' = SampleResult(best, 0, WfSources[ssrc])
                  /\ UNCHANGED sradius
             ELSE /\ spc' = "ring"
                  /\ sradius' = SampleStep(smode)
                  /\ UNCHANGED sout
    /\ UNCHANGED <<smode, ssrc, si, sbest, sfirst>>

\* one read on the current ring, and what the loops do after it; sfirst
\* remembers the level of the first valid read of the ring
SampleRing ==
    /\ spc = "ring"
    /\ scalls' = scalls + 2
    /\ \E calls \in SampleCalls :
         LET res == SampleRead(calls)
             better == res.hasAny
                         /\ (~sbest.hasAny \/ LEVEL_SCORE(res.level) > LEVEL_SCORE(sbest.level))
             bestAtRadius == IF better THEN res ELSE sbest
             n == WfRingSamples(sradius \div SampleStep(smode))
             ringOver == (better /\ res.level = "Very High") \/ si + 1 >= n
             seen == IF sfirst = "-" /\ res.hasAny THEN res.level ELSE sfirst
         IN  IF ~ringOver
             THEN /\ si' = si + 1
                  /\ sbest' = bestAtRadius
                  /\ sfirst' = seen
                  /\ UNCHANGED <<spc, ssrc, sradius, sout>>
             ELSE IF bestAtRadius.hasAny
             THEN /\ spc' = "done"
                  /\ sout' = SampleResult(bestAtRadius, sradius, WfSources[ssrc])
                  /\ sbest' = bestAtRadius
                  /\ sfirst' = seen
                  /\ UNCHANGED <<ssrc, sradius, si>>
             ELSE IF sradius + SampleStep(smode) <= SampleMaxRadius(smode)
             THEN /\ sradius' = sradius + SampleStep(smode)
                  /\ si' = 0
                  /\ UNCHANGED <<spc, ssrc, sbest, sfirst, sout>>
             ELSE IF ssrc < Len(WfSources)
             THEN /\ ssrc' = ssrc + 1
                  /\ spc' = "point"
                  /\ sradius' = 0
                  /\ si' = 0
                  /\ UNCHANGED <<sbest, sfirst, sout>>
             ELSE /\ spc' = "done"
                  /\ sout' = [level |-> "Not Applicable", hasValue |-> FALSE, value |-> 0,
                              meters |-> 0, provider |-> "null"]
                  /\ UNCHANGED <<ssrc, sradius, si, sbest, sfirst>>
    /\ UNCHANGED smode

(***************************************************************************)
(* wildfire/homes/route.ts: what each revision's sampler makes of one      *)
(* sample: tryVariants (first), getSample / sampleNearestColored / GET     *)
(* (second), getVariantValue (third).                                      *)
(***************************************************************************)
\* levelFromValue of the second revision; v is null or a number
levelFromValue(v) ==
    IF IsNullish(v) THEN "Not Applicable"
    ELSE IF IsHuge(v) THEN (IF v.v < 0 THEN "Very Low" ELSE "Very High")
    ELSE IF v.v < 16000 THEN "Very Low"
    ELSE IF v.v < 35000 THEN "Low"
    ELSE IF v.v < 60000 THEN "Moderate"
    ELSE IF v.v < 85000 THEN "High"
    ELSE "Very High"

\* getSample of the second revision: kind is how the call ended, raw the
\* value of samples[0] (JsNull when there is no sample, and when the body
\* of a 200 response does not parse); value is Number(raw) when finite
getSample(kind, raw) ==
    IF kind = "httperr" THEN [ok |-> FALSE, value |-> JsNull]
    ELSE LET r == IF kind = "answered" THEN raw ELSE JsNull
             num == ToNumber(r)
         IN  [ok |-> TRUE,
              value |-> IF IsFiniteNum(num) \/ IsHuge(num) THEN num ELSE JsNull]

PixelSamplers == {"tryVariants", "getSample", "getVariantValue"}

\* the rendering rules a sampler asks for
PixelLabels(fn) ==
    CASE fn = "tryVariants" -> {"RPS", "RPS_Class", "ClassRPS", "ClassifiedRPS", "none"}
      [] fn = "getSample" -> {"RPS"}
      [] fn = "getVariantValue" -> {"RPS", "RPS_Class"}

\* how the getSamples call may end; only tryVariants and getVariantValue
\* have a timer
PixelKinds(fn) ==
    {"answered", "httperr", "unparseable"}
        \cup (IF fn = "getSample" THEN {} ELSE {"timeout"})

\* what an answering server may send as samples[0].value
PixelRawValues ==
    WfRawValues \cup {JsHuge(1), JsHuge(-1), JsNum(100), JsNum(500), JsNum(12800),
                      JsNum(90000), JsStr(<<"0">>), JsStr(<<"3",",","7">>)}

\* moved: the sampler goes on to its next variant or ring sample; otherwise
\* level is the level the response carries for this sample
PixelMoved == [moved |-> TRUE, level |-> "-"]

PixelLevel(level) == [moved |-> FALSE, level |-> level]

PixelOutcome(fn, label, kind, raw) ==
    CASE fn = "tryVariants" ->
            LET res == VariantResult(label, kind, raw)
            IN  IF res.type = "next" THEN PixelMoved
                ELSE IF res.type = "class"
                     THEN PixelLevel(levelFromClassCode(JsNum(res.value)))
                     ELSE PixelLevel(levelFromRps(JsNum(res.value)))
      [] fn = "getSample" ->
            LET s == getSample(kind, raw)
            IN  IF s.ok /\ ~IsNullish(s.value) THEN PixelLevel(levelFromValue(s.value))
                ELSE PixelMoved
      [] fn = "getVariantValue" ->
            LET res == getVariantValue(label, kind, raw)
            IN  IF ~(res.ok /\ res.hasValue) THEN PixelMoved
                ELSE IF res.type = "class"
                     THEN PixelLevel(levelFromClassCode(JsNum(res.value)))
                     ELSE PixelLevel(levelFromRps(JsNum(res.value)))

PxInit ==
    /\ xfn \in PixelSamplers
    /\ xlabel \in PixelLabels(xfn)
    /\ xkind \in PixelKinds(xfn)
    /\ xraw \in (IF xkind = "answered" THEN PixelRawValues ELSE {JsNull})
    /\ xpc = "pending"
    /\ xout = PixelMoved

\* no sample being read (the other specifications)
PxIdle ==
    /\ xfn = "getSample"
    /\ xlabel = "RPS"
    /\ xkind = "httperr"
    /\ xraw = JsNull
    /\ xpc = "off"
    /\ xout = PixelMoved

\* the sampler reads the sample
PxRead ==
    /\ xpc = "pending"
    /\ xpc' = "read"
    /\ xout' = PixelOutcome(xfn, xlabel, xkind, xraw)
    /\ UNCHANGED <<xfn, xlabel, xkind, xraw>>

(***************************************************************************)
(* Attribute keys and the words the field patterns look for.               *)
(***************************************************************************)
k_TRND == <<"T","R","N","D">>

k_TRND_RISKR == <<"T","R","N","D","_","R","I","S","K","R">>

k_u_RISKR == <<"_","R","I","S","K","R">>

k_TRND_RISKS == <<"T","R","N","D","_","R","I","S","K","S">>

k_RISKS == <<"R","I","S","K","S">>

k_RISKR == <<"R","I","S","K","R">>

k_RANK == <<"R","A","N","K">>

k_PCTL == <<"P","C","T","L">>

k_INDEX == <<"I","N","D","E","X">>

k_TORN == <<"T","O","R","N">>

k_TORN_RISKR == <<"T","O","R","N","_","R","I","S","K","R">>

k_TORNADO_RISKR == <<"T","O","R","N","A","D","O","_","R","I","S","K","R">>

k_TORN_RISKS == <<"T","O","R","N","_","R","I","S","K","S">>

k_TORNADO_RISKS == <<"T","O","R","N","A","D","O","_","R","I","S","K","S">>

k_TRND_EAL_RISKR == <<"T","R","N","D","_","E","A","L","_","R","I","S","K","R">>

k_TRND_EAL_RISKS == <<"T","R","N","D","_","E","A","L","_","R","I","S","K","S">>

k_TRND_PCTL_RISKS == <<"T","R","N","D","_","P","C","T","L","_","R","I","S","K","S">>

k_TORN_EAL_RISKS == <<"T","O","R","N","_","E","A","L","_","R","I","S","K","S">>

k_TORN_RANK_RISKS == <<"T","O","R","N","_","R","A","N","K","_","R","I","S","K","S">>

k_LNDS_RISKR == <<"L","N","D","S","_","R","I","S","K","R">>

k_LNDS_RISKS == <<"L","N","D","S","_","R","I","S","K","S">>

k_RISK_INDEX == <<"R","I","S","K","_","I","N","D","E","X">>

k_RISKINDEX == <<"R","I","S","K","I","N","D","E","X">>

k_RISK_SCORE == <<"R","I","S","K","_","S","C","O","R","E">>

k_OBJECTID == <<"O","B","J","E","C","T","I","D">>

k_SUSC_CLASS == <<"S","U","S","C","_","C","L","A","S","S">>

k_Shape_Area == <<"S","h","a","p","e","_","_","A","r","e","a">>

\* RATING_FIELDS and NUMERIC_FIELDS of the landslide handler, in order
RATING_FIELDS ==
    <<<<"L","N","D","S","_","R","I","S","K","R">>,
      <<"l","n","d","s","_","r","i","s","k","r">>,
      <<"L","A","N","D","S","L","I","D","E"," ","-"," ","I","N","D","I","V","I","D","U","A","L"," ","H","A","Z","A","R","D"," ","R","I","S","K"," ","R","A","T","I","N","G">>,
      <<"L","a","n","d","s","l","i","d","e"," ","-"," ","I","n","d","i","v","i","d","u","a","l"," ","H","a","z","a","r","d"," ","R","i","s","k"," ","R","a","t","i","n","g">>,
      <<"L","N","D","S","_","R","I","S","K","C">>,
      <<"l","n","d","s","_","r","i","s","k","c">>,
      <<"R","I","S","K","_","R","A","T","N","G">>,
      <<"R","I","S","K","_","R","A","T","I","N","G">>,
      <<"R","I","S","K","R","A","T","I","N","G">>>>

NUMERIC_FIELDS ==
    <<<<"L","N","D","S","_","R","I","S","K","S">>,
      <<"l","n","d","s","_","r","i","s","k","s">>,
      <<"R","I","S","K","_","S","C","O","R","E">>,
      <<"R","I","S","K","S","C","O","R","E">>,
      <<"R","I","S","K","I","N","D","E","X">>,
      <<"R","I","S","K","_","I","N","D","E","X">>>>

\* the common field names of pickField, lower case
CommonFields ==
    {<<"s","u","s","c","_","c","l","a","s","s">>,
     <<"s","u","s","c","e","p","t","i","b","i","l","i","t","y">>,
     <<"c","l","a","s","s">>,
     <<"c","a","t","e","g","o","r","y">>,
     <<"c","l","a","s","s","n","a","m","e">>,
     <<"c","l","a","s","s","_","n","a","m","e">>,
     <<"n","a","m","e">>,
     <<"t","y","p","e">>}

(***************************************************************************)
(* The field locators: findAttr and extract (tornado, first revision),     *)
(* extractTornado (second revision), extractRating (landslide),            *)
(* pickField (part_005).  An attribute bag is the sequence of its          *)
(* {key, value} pairs in the order of Object.keys.                         *)
(***************************************************************************)
\* most keys in a bag
MaxKeys == 2

EndsWith(str, suffix) ==
    /\ Len(str) >= Len(suffix)
    /\ SubSeq(str, Len(str) - Len(suffix) + 1, Len(str)) = suffix

\* /(^|_)W$/: str ends with W, at the start or after an underscore
EndsWithField(str, w) ==
    /\ EndsWith(str, w)
    /\ (Len(str) = Len(w) \/ str[Len(str) - Len(w)] = "_")

\* /(^|_)W.*SUFFIX$/
FieldThenSuffix(str, w, suffix) ==
    /\ EndsWith(str, suffix)
    /\ \E i \in 1..Len(str) :
          /\ i + Len(w) - 1 <= Len(str) - Len(suffix)
          /\ SubSeq(str, i, i + Len(w) - 1) = w
          /\ (i = 1 \/ str[i - 1] = "_")

\* the upper-cased key of pair i of the bag
UpperKey(bag, i) == ToUpperCase(bag[i].key)

\* the first of the pairs (indices) whose key passed a test, 0 when none
\* did: Object.keys(attrs) is walked in order
FirstKey(hits) ==
    IF hits = {} THEN 0 ELSE CHOOSE i \in hits : \A j \in hits : i <= j

\* the key of pair i, <<>> for "no field"
KeyAt(bag, i) == IF i = 0 THEN <<>> ELSE bag[i].key

\* the patterns of extract: the exact rating field, the rating field with
\* anything between TRND and _RISKR, the exact score field
IsTrndRiskr(up) == EndsWithField(up, k_TRND_RISKR)

IsTrndAnyRiskr(up) == FieldThenSuffix(up, k_TRND, k_u_RISKR)

IsTrndRisks(up) == EndsWithField(up, k_TRND_RISKS)

\* a key that carries an auxiliary statistic
IsAuxiliaryKey(up) ==
    Includes(up, k_RANK) \/ Includes(up, k_PCTL) \/ Includes(up, k_INDEX)

\* the fallback of the score: ...TRND...RISKS without RISKR, RANK, PCTL, INDEX
IsTrndScoreLike(up) ==
    /\ Includes(up, k_TRND)
    /\ EndsWith(up, k_RISKS)
    /\ ~Includes(up, k_RISKR)
    /\ ~IsAuxiliaryKey(up)

\* findAttr with the two rating patterns of extract: the first key that
\* matches either of them
findAttrRate(bag) ==
    FirstKey({i \in 1..Len(bag) :
                 IsTrndRiskr(UpperKey(bag, i)) \/ IsTrndAnyRiskr(UpperKey(bag, i))})

\* usedFields of extract
extractUsedFields(bag) ==
    LET exact == FirstKey({i \in 1..Len(bag) : IsTrndRisks(UpperKey(bag, i))})
        score == IF exact # 0 THEN exact
                 ELSE FirstKey({i \in 1..Len(bag) : IsTrndScoreLike(UpperKey(bag, i))})
    IN  [label |-> KeyAt(bag, findAttrRate(bag)), score |-> KeyAt(bag, score)]

\* the patterns of extractTornado
IsTornRiskr(up) == EndsWithField(up, k_TORN_RISKR) \/ EndsWithField(up, k_TORNADO_RISKR)

IsTornRisks(up) == EndsWithField(up, k_TORN_RISKS) \/ EndsWithField(up, k_TORNADO_RISKS)

IsTornScoreLike(up) ==
    /\ Includes(up, k_TORN)
    /\ EndsWith(up, k_RISKS)
    /\ ~Includes(up, k_RISKR)
    /\ ~IsAuxiliaryKey(up)

\* usedFields of extractTornado
extractTornadoUsedFields(bag) ==
    LET exact == FirstKey({i \in 1..Len(bag) : IsTornRisks(UpperKey(bag, i))})
        score == IF exact # 0 THEN exact
                 ELSE FirstKey({i \in 1..Len(bag) : IsTornScoreLike(UpperKey(bag, i))})
    IN  [label |-> KeyAt(bag, FirstKey({i \in 1..Len(bag) : IsTornRiskr(UpperKey(bag, i))})), score |-> KeyAt(bag, score)]

\* attrs[f]: the value under the key f, undefined (null here) when absent
AttrValue(bag, f) ==
    IF \E i \in 1..Len(bag) : bag[i].key = f
    THEN bag[CHOOSE i \in 1..Len(bag) : bag[i].key = f].value
    ELSE JsNull

\* usedField of extractRating: the first of RATING_FIELDS that holds a
\* value mapLabelLoose knows or a non-blank one, else the first of
\* NUMERIC_FIELDS that holds a number
extractRatingUsedField(bag) ==
    LET rated(n) == LET v == AttrValue(bag, RATING_FIELDS[n])
                    IN  /\ ~IsNullish(v)
                        /\ (mapLabelLoose(v).level # "Undetermined" \/ Trim(ToStr(v)) # <<>>)
        numeric(n) == AttrValue(bag, NUMERIC_FIELDS[n]).t \in {"num", "huge", "nan", "inf"}
        first(S) == CHOOSE n \in S : \A m \in S : n <= m
        R == {n \in 1..Len(RATING_FIELDS) : rated(n)}
        N == {n \in 1..Len(NUMERIC_FIELDS) : numeric(n)}
    IN  IF R # {} THEN [label |-> RATING_FIELDS[first(R)], score |-> <<>>]
        ELSE IF N # {} THEN [label |-> <<>>, score |-> NUMERIC_FIELDS[first(N)]]
        ELSE [label |-> <<>>, score |-> <<>>]

\* a letter, a digit or the underscore
IsWordChar(c) ==
    \/ c = "_"
    \/ IsDigit(c)
    \/ \E k \in 1..26 : LowerChars[k] = c \/ UpperChars[k] = c

\* /\bW\b/ on a lower-cased string
HasWord(str, w) ==
    \E i \in 1..Len(str) :
        /\ i + Len(w) - 1 <= Len(str)
        /\ SubSeq(str, i, i + Len(w) - 1) = w
        /\ (i = 1 \/ ~IsWordChar(str[i - 1]))
        /\ (i + Len(w) - 1 = Len(str) \/ ~IsWordChar(str[i + Len(w)]))

RatingCodes == {s_vh, <<"h">>, <<"m">>, s_vl, <<"l">>}

\* the string-scan test of pickField.  "high", "moderate" and "low" cover
\* the "very ..." alternatives of the pattern
LooksLikeRating(v) ==
    /\ v.t = "str"
    /\ LET l == ToLowerCase(v.s)
       IN  \/ Includes(l, s_high) \/ Includes(l, s_moderate) \/ Includes(l, s_low)
           \/ \E c \in RatingCodes : HasWord(l, c)

\* the small-int test of pickField: a number in 0..10, or a string of
\* digits whose number is
IsSmallInt(v) ==
    \/ v.t = "num" /\ v.v >= 0 /\ v.v <= 1000
    \/ /\ v.t = "str"
       /\ v.s # <<>>
       /\ \A i \in 1..Len(v.s) : IsDigit(v.s[i])
       /\ ParseDigits(v.s, 0) <= 10

\* pickField with LANDSLIDE_FIELD unset: the field it returns and how
pickField(bag) ==
    LET idx == 1..Len(bag)
        common == FirstKey({i \in idx : ToLowerCase(bag[i].key) \in CommonFields})
        scan == FirstKey({i \in idx : LooksLikeRating(bag[i].value)})
        small == FirstKey({i \in idx : IsSmallInt(bag[i].value)})
        code == FirstKey({i \in idx : /\ bag[i].value.t = "str"
                                      /\ ToLowerCase(Trim(bag[i].value.s)) \in RatingCodes})
    IN  IF common # 0 THEN [field |-> KeyAt(bag, common), how |-> "common"]
        ELSE IF scan # 0 THEN [field |-> KeyAt(bag, scan), how |-> "string-scan"]
        ELSE IF small # 0 THEN [field |-> KeyAt(bag, small), how |-> "small-int"]
        ELSE IF code # 0 THEN [field |-> KeyAt(bag, code), how |-> "code-vh"]
        ELSE [field |-> <<>>, how |-> "null"]

FieldLocators == {"extract", "extractTornado", "extractRating", "pickField"}

\* the field a locator returns as the rating and the one it returns as the
\* score (<<>>: none)
LocatedFields(fn, bag) ==
    CASE fn = "extract" -> extractUsedFields(bag)
      [] fn = "extractTornado" -> extractTornadoUsedFields(bag)
      [] fn = "extractRating" -> extractRatingUsedField(bag)
      [] fn = "pickField" -> [label |-> pickField(bag).field, score |-> <<>>]

\* the keys a feature may carry and the values under each
RatingKeys ==
    {k_TRND_RISKR, k_TRND_EAL_RISKR, k_TORN_RISKR, k_LNDS_RISKR, k_SUSC_CLASS}

ScoreKeys ==
    {k_TRND_RISKS, k_TRND_EAL_RISKS, k_TRND_PCTL_RISKS, k_TORNADO_RISKS,
     k_TORN_EAL_RISKS, k_TORN_RANK_RISKS, k_LNDS_RISKS, k_RISK_INDEX}

OtherKeys == {k_OBJECTID, k_Shape_Area}

AttrValues(key) ==
    IF key \in RatingKeys THEN {JsStr(s_Relatively \o s_sp \o L_Low), JsNull}
    ELSE IF key \in ScoreKeys THEN {JsNum(5500)}
    ELSE IF key = k_OBJECTID THEN {JsNum(300)}
    ELSE {JsNum(123456)}

AttrPairs ==
    UNION {[key : {k}, value : AttrValues(k)] : k \in RatingKeys \cup ScoreKeys \cup OtherKeys}

\* the bags: at most MaxKeys pairs, no key twice
AttrBags ==
    {bag \in UNION {[1..n -> AttrPairs] : n \in 1..MaxKeys} :
        \A i, j \in 1..Len(bag) : i # j => bag[i].key # bag[j].key}

NoFields == [label |-> <<>>, score |-> <<>>]

AttrInit ==
    /\ afn \in FieldLocators
    /\ abag \in AttrBags
    /\ apc = "pending"
    /\ aout = NoFields

\* no locator call under way (the other specifications)
AttrIdle ==
    /\ afn = "extract"
    /\ abag = <<>>
    /\ apc = "off"
    /\ aout = NoFields

\* one call of the locator
AttrLocate ==
    /\ apc = "pending"
    /\ apc' = "returned"
    /\ aout' = LocatedFields(afn, abag)
    /\ UNCHANGED <<afn, abag>>

(***************************************************************************)
(* wildfire/homes/route.ts: byteToClass on every byte.                     *)
(***************************************************************************)
ByteInit ==
    /\ yb \in 0..255
    /\ ypc = "pending"
    /\ yout = 0

\* no byteToClass call under way (the other specifications)
ByteIdle ==
    /\ yb = 0
    /\ ypc = "off"
    /\ yout = 0

\* one call of byteToClass
ByteClassify ==
    /\ ypc = "pending"
    /\ ypc' = "returned"
    /\ yout' = byteToClass(100 * yb)
    /\ UNCHANGED yb

(***************************************************************************)
(* The provider requests of one handler invocation, call by call:          *)
(* pickFeature (tornado, both revisions) on the tract and the county       *)
(* source, and readBothAndChoose under sampleNearest (wildfire, third      *)
(* revision, fast mode).                                                   *)
(***************************************************************************)
FlightHandlers == {"tornado1", "tornado2", "wildfire3"}

\* a handler that starts its next request without waiting for the last one
AwaitsResult_never(h) == FALSE

\* every call is "await query(...)" / "await getVariantValue(...)": the
\* handler is suspended until the request has settled
AwaitsResult(h) == TRUE

\* only the wildfire handler arms a timer that aborts the request
HasTimer(h) == h = "wildfire3"

\* the provider calls an invocation makes when nothing is found: each step
\* of pickFeature on both sources; RPS and RPS_Class at the point and at
\* every ring sample, on both sources
CallCount(h) ==
    IF IsTornado(h) THEN 2 * Len(Stages(h))
    ELSE 2 * 2 * (1 + WfRingSamples(1) + WfRingSamples(2) + WfRingSamples(3))

\* how a request may end; a request with no timer may also never end
RequestEndings(h) ==
    {"found", "nothing", "httperr", "rejected"}
        \cup (IF HasTimer(h) THEN {"aborted"} ELSE {})

FlightInit ==
    /\ qh \in FlightHandlers
    /\ qpc = "call"
    /\ qk = 1
    /\ qflight = 0

\* no invocation under way (the other specifications)
FlightIdle ==
    /\ qh = "tornado1"
    /\ qpc = "off"
    /\ qk = 1
    /\ qflight = 0

\* the handler starts its next request
FlightIssue ==
    /\ qpc = "call"
    /\ qflight' = qflight + 1
    /\ IF AwaitsResult(qh)
       THEN qpc' = "await" /\ UNCHANGED qk
       ELSE /\ qk' = qk + 1
            /\ qpc' = IF qk < CallCount(qh) THEN "call" ELSE "done"
    /\ UNCHANGED qh

\* the request the handler awaits settles: a response, a rejected fetch, or
\* the abort of the timer; the handler resumes
FlightSettle ==
    /\ qpc = "await"
    /\ qflight' = qflight - 1
    /\ \E kind \in RequestEndings(qh) :
         IF kind = "found" \/ (kind = "rejected" /\ IsTornado(qh)) \/ qk = CallCount(qh)
         THEN qpc' = "done" /\ UNCHANGED qk
         ELSE qpc' = "call" /\ qk' = qk + 1
    /\ UNCHANGED qh

(***************************************************************************)
(* wildfire/homes/route.ts: the level of two samples read under the same   *)
(* rendering rule (tryVariants with the first revision's GET,              *)
(* getVariantValue with readBothAndChoose).                                *)
(***************************************************************************)
\* sample values that are not no-data, in hundredths: an index in 0-1, the
\* classes, bytes, an index in 0-100, in 0-1020 and in 0-2000, a negative
PairRawValues ==
    {-500, 50, 100, 150, 200, 300, 500, 600, 5000, 10000, 12800, 20000, 25500,
     30000, 70000, 102000, 150000, 200000, 250000}

PairSamplers == {"tryVariants", "getVariantValue"}

PairLabels == {"RPS", "RPS_Class"}

NoPair == <<"-", "-">>

PairInit ==
    /\ mfn \in PairSamplers
    /\ mlabel \in PairLabels
    /\ mlo \in PairRawValues
    /\ mhi \in {v \in PairRawValues : v > mlo}
    /\ mpc = "pending"
    /\ mout = NoPair

\* no pair of samples being read (the other specifications)
PairIdle ==
    /\ mfn = "tryVariants"
    /\ mlabel = "RPS"
    /\ mlo = 0
    /\ mhi = 0
    /\ mpc = "off"
    /\ mout = NoPair

\* the sampler reads the smaller and the larger sample
PairRead ==
    /\ mpc = "pending"
    /\ mpc' = "read"
    /\ mout' = <<PixelOutcome(mfn, mlabel, "answered", JsNum(mlo)).level,
                 PixelOutcome(mfn, mlabel, "answered", JsNum(mhi)).level>>
    /\ UNCHANGED <<mfn, mlabel, mlo, mhi>>


(***************************************************************************)
(* tornado/risk/route.ts, second revision: extractTornado on the           *)
(* attributes of one NRI polygon.                                          *)
(***************************************************************************)
\* what the rating field may hold: the NRI ratings, the two ratings without
\* a level, text that names no level, nothing
TornRatings ==
    {JsStr(L_VeryLow), JsStr(s_Relatively \o s_sp \o L_Low),
     JsStr(s_Relatively \o s_sp \o L_Moderate), JsStr(s_Relatively \o s_sp \o L_High),
     JsStr(L_VeryHigh), JsStr(L_High),
     JsStr(Capitalize(s_insufficient) \o s_sp \o Capitalize(s_data)),
     JsStr(s_NoRating), JsStr(Capitalize(s_not) \o s_sp \o Capitalize(s_applicable)),
     JsStr(<<"n","/","a">>), JsStr(<<>>), JsNull}

\* what the score field may hold (numbers in hundredths): scores at and
\* around the cut points, a score as text, NaN, nothing
TornScores ==
    {JsNum(-100), JsNum(0), JsNum(1999), JsNum(2000), JsNum(3999), JsNum(4000),
     JsNum(5999), JsNum(6000), JsNum(7999), JsNum(8000), JsNum(10000),
     JsStr(<<"8","5">>), JsNaN, JsNull}

TornInit ==
    /\ tattrs \in {Attrs(r, sc) : r \in TornRatings, sc \in TornScores}
    /\ tpc = "pending"
    /\ tout = "-"

\* no extractTornado call under way (the other specifications)
TornIdle ==
    /\ tattrs = NoPolygon
    /\ tpc = "off"
    /\ tout = "-"

\* extractTornado returns
TornExtract ==
    /\ tpc = "pending"
    /\ tpc' = "returned"
    /\ tout' = extractTornado(tattrs)
    /\ UNCHANGED tattrs


(***************************************************************************)
(* Specifications.                                                         *)
(***************************************************************************)
\* everything outside the Norm component stays as it is
OthersNormIdle ==
    /\ VecIdle
    /\ PageIdle
    /\ WfIdle
    /\ ReadIdle
    /\ FloodIdle
    /\ FemaIdle
    /\ DiscIdle
    /\ SampleIdle
    /\ PxIdle
    /\ AttrIdle
    /\ ByteIdle
    /\ FlightIdle
    /\ PairIdle
    /\ TornIdle

OthersNormUnchanged == UNCHANGED <<varsVec, varsPage, varsWf, varsRead, varsFlood, varsFema, varsDisc, varsSample, varsPx, varsAttr, varsByte, varsFlight, varsPair, varsTorn>>

InitNorm == NormInit /\ OthersNormIdle

NextNorm == NormCall /\ OthersNormUnchanged

SpecNorm == InitNorm /\ [][NextNorm]_vars

\* everything outside the Vec component stays as it is
OthersVecIdle ==
    /\ NormIdle
    /\ PageIdle
    /\ WfIdle
    /\ ReadIdle
    /\ FloodIdle
    /\ FemaIdle
    /\ DiscIdle
    /\ SampleIdle
    /\ PxIdle
    /\ AttrIdle
    /\ ByteIdle
    /\ FlightIdle
    /\ PairIdle
    /\ TornIdle

OthersVecUnchanged == UNCHANGED <<varsNorm, varsPage, varsWf, varsRead, varsFlood, varsFema, varsDisc, varsSample, varsPx, varsAttr, varsByte, varsFlight, varsPair, varsTorn>>

InitVec == VecInit /\ OthersVecIdle

NextVec ==
    \/ VecStart /\ OthersVecUnchanged
    \/ VecGeocode /\ OthersVecUnchanged
    \/ VecQueryTract /\ OthersVecUnchanged
    \/ VecQueryCounty /\ OthersVecUnchanged

SpecVec == InitVec /\ [][NextVec]_vars

\* everything outside the Page component stays as it is
OthersPageIdle ==
    /\ NormIdle
    /\ VecIdle
    /\ WfIdle
    /\ ReadIdle
    /\ FloodIdle
    /\ FemaIdle
    /\ DiscIdle
    /\ SampleIdle
    /\ PxIdle
    /\ AttrIdle
    /\ ByteIdle
    /\ FlightIdle
    /\ PairIdle
    /\ TornIdle

OthersPageUnchanged == UNCHANGED <<varsNorm, varsVec, varsWf, varsRead, varsFlood, varsFema, varsDisc, varsSample, varsPx, varsAttr, varsByte, varsFlight, varsPair, varsTorn>>

InitPage == PageInit /\ OthersPageIdle

NextPage ==
    \/ PageCheck /\ OthersPageUnchanged
    \/ PageGeocode /\ OthersPageUnchanged
    \/ PageSettle /\ OthersPageUnchanged
    \/ PageRead /\ OthersPageUnchanged

SpecPage == InitPage /\ [][NextPage]_vars

\* a step of the run in progress: an awaited fetch or body read settles and
\* the continuation runs
PageRunStep == (PageGeocode \/ PageSettle \/ PageRead) /\ OthersPageUnchanged

\* the page with a browser that settles every fetch and every body read and
\* runs the continuation of every settled await; the user may or may not
\* press Check again
SpecPageLive == SpecPage /\ WF_vars(PageRunStep)

\* everything outside the Wf component stays as it is
OthersWfIdle ==
    /\ NormIdle
    /\ VecIdle
    /\ PageIdle
    /\ ReadIdle
    /\ FloodIdle
    /\ FemaIdle
    /\ DiscIdle
    /\ SampleIdle
    /\ PxIdle
    /\ AttrIdle
    /\ ByteIdle
    /\ FlightIdle
    /\ PairIdle
    /\ TornIdle

OthersWfUnchanged == UNCHANGED <<varsNorm, varsVec, varsPage, varsRead, varsFlood, varsFema, varsDisc, varsSample, varsPx, varsAttr, varsByte, varsFlight, varsPair, varsTorn>>

InitWf == WfInit /\ OthersWfIdle

NextWf ==
    \/ WfStart /\ OthersWfUnchanged
    \/ WfGeocode /\ OthersWfUnchanged
    \/ WfCall /\ OthersWfUnchanged

SpecWf == InitWf /\ [][NextWf]_vars

\* everything outside the Read component stays as it is
OthersReadIdle ==
    /\ NormIdle
    /\ VecIdle
    /\ PageIdle
    /\ WfIdle
    /\ FloodIdle
    /\ FemaIdle
    /\ DiscIdle
    /\ SampleIdle
    /\ PxIdle
    /\ AttrIdle
    /\ ByteIdle
    /\ FlightIdle
    /\ PairIdle
    /\ TornIdle

OthersReadUnchanged == UNCHANGED <<varsNorm, varsVec, varsPage, varsWf, varsFlood, varsFema, varsDisc, varsSample, varsPx, varsAttr, varsByte, varsFlight, varsPair, varsTorn>>

InitRead == ReadInit /\ OthersReadIdle

NextRead == ReadChoose /\ OthersReadUnchanged

SpecRead == InitRead /\ [][NextRead]_vars

\* everything outside the Flood component stays as it is
OthersFloodIdle ==
    /\ NormIdle
    /\ VecIdle
    /\ PageIdle
    /\ WfIdle
    /\ ReadIdle
    /\ FemaIdle
    /\ DiscIdle
    /\ SampleIdle
    /\ PxIdle
    /\ AttrIdle
    /\ ByteIdle
    /\ FlightIdle
    /\ PairIdle
    /\ TornIdle

OthersFloodUnchanged == UNCHANGED <<varsNorm, varsVec, varsPage, varsWf, varsRead, varsFema, varsDisc, varsSample, varsPx, varsAttr, varsByte, varsFlight, varsPair, varsTorn>>

InitFlood == FloodInit /\ OthersFloodIdle

NextFlood == FloodClassify /\ OthersFloodUnchanged

SpecFlood == InitFlood /\ [][NextFlood]_vars

\* everything outside the Fema component stays as it is
OthersFemaIdle ==
    /\ NormIdle
    /\ VecIdle
    /\ PageIdle
    /\ WfIdle
    /\ ReadIdle
    /\ FloodIdle
    /\ DiscIdle
    /\ SampleIdle
    /\ PxIdle
    /\ AttrIdle
    /\ ByteIdle
    /\ FlightIdle
    /\ PairIdle
    /\ TornIdle

OthersFemaUnchanged == UNCHANGED <<varsNorm, varsVec, varsPage, varsWf, varsRead, varsFlood, varsDisc, varsSample, varsPx, varsAttr, varsByte, varsFlight, varsPair, varsTorn>>

InitFema == FemaInit /\ OthersFemaIdle

NextFema ==
    \/ FemaStart /\ OthersFemaUnchanged
    \/ FemaCall1 /\ OthersFemaUnchanged
    \/ FemaCall2 /\ OthersFemaUnchanged

SpecFema == InitFema /\ [][NextFema]_vars

\* everything outside the Disc component stays as it is
OthersDiscIdle ==
    /\ NormIdle
    /\ VecIdle
    /\ PageIdle
    /\ WfIdle
    /\ ReadIdle
    /\ FloodIdle
    /\ FemaIdle
    /\ SampleIdle
    /\ PxIdle
    /\ AttrIdle
    /\ ByteIdle
    /\ FlightIdle
    /\ PairIdle
    /\ TornIdle

OthersDiscUnchanged == UNCHANGED <<varsNorm, varsVec, varsPage, varsWf, varsRead, varsFlood, varsFema, varsSample, varsPx, varsAttr, varsByte, varsFlight, varsPair, varsTorn>>

InitDisc == DiscInit /\ OthersDiscIdle

NextDisc == DiscRun /\ OthersDiscUnchanged

SpecDisc == InitDisc /\ [][NextDisc]_vars

\* everything outside the Sample component stays as it is
OthersSampleIdle ==
    /\ NormIdle
    /\ VecIdle
    /\ PageIdle
    /\ WfIdle
    /\ ReadIdle
    /\ FloodIdle
    /\ FemaIdle
    /\ DiscIdle
    /\ PxIdle
    /\ AttrIdle
    /\ ByteIdle
    /\ FlightIdle
    /\ PairIdle
    /\ TornIdle

OthersSampleUnchanged == UNCHANGED <<varsNorm, varsVec, varsPage, varsWf, varsRead, varsFlood, varsFema, varsDisc, varsPx, varsAttr, varsByte, varsFlight, varsPair, varsTorn>>

InitSample == SampleInit /\ OthersSampleIdle

NextSample ==
    \/ SamplePoint /\ OthersSampleUnchanged
    \/ SampleRing /\ OthersSampleUnchanged

SpecSample == InitSample /\ [][NextSample]_vars

\* everything outside the Px component stays as it is
OthersPxIdle ==
    /\ NormIdle
    /\ VecIdle
    /\ PageIdle
    /\ WfIdle
    /\ ReadIdle
    /\ FloodIdle
    /\ FemaIdle
    /\ DiscIdle
    /\ SampleIdle
    /\ AttrIdle
    /\ ByteIdle
    /\ FlightIdle
    /\ PairIdle
    /\ TornIdle

OthersPxUnchanged == UNCHANGED <<varsNorm, varsVec, varsPage, varsWf, varsRead, varsFlood, varsFema, varsDisc, varsSample, varsAttr, varsByte, varsFlight, varsPair, varsTorn>>

InitPx == PxInit /\ OthersPxIdle

NextPx == PxRead /\ OthersPxUnchanged

SpecPx == InitPx /\ [][NextPx]_vars

\* everything outside the Attr component stays as it is
OthersAttrIdle ==
    /\ NormIdle
    /\ VecIdle
    /\ PageIdle
    /\ WfIdle
    /\ ReadIdle
    /\ FloodIdle
    /\ FemaIdle
    /\ DiscIdle
    /\ SampleIdle
    /\ PxIdle
    /\ ByteIdle
    /\ FlightIdle
    /\ PairIdle
    /\ TornIdle

OthersAttrUnchanged == UNCHANGED <<varsNorm, varsVec, varsPage, varsWf, varsRead, varsFlood, varsFema, varsDisc, varsSample, varsPx, varsByte, varsFlight, varsPair, varsTorn>>

InitAttr == AttrInit /\ OthersAttrIdle

NextAttr == AttrLocate /\ OthersAttrUnchanged

SpecAttr == InitAttr /\ [][NextAttr]_vars

\* everything outside the Byte component stays as it is
OthersByteIdle ==
    /\ NormIdle
    /\ VecIdle
    /\ PageIdle
    /\ WfIdle
    /\ ReadIdle
    /\ FloodIdle
    /\ FemaIdle
    /\ DiscIdle
    /\ SampleIdle
    /\ PxIdle
    /\ AttrIdle
    /\ FlightIdle
    /\ PairIdle
    /\ TornIdle

OthersByteUnchanged == UNCHANGED <<varsNorm, varsVec, varsPage, varsWf, varsRead, varsFlood, varsFema, varsDisc, varsSample, varsPx, varsAttr, varsFlight, varsPair, varsTorn>>

InitByte == ByteInit /\ OthersByteIdle

NextByte == ByteClassify /\ OthersByteUnchanged

SpecByte == InitByte /\ [][NextByte]_vars

\* everything outside the Flight component stays as it is
OthersFlightIdle ==
    /\ NormIdle
    /\ VecIdle
    /\ PageIdle
    /\ WfIdle
    /\ ReadIdle
    /\ FloodIdle
    /\ FemaIdle
    /\ DiscIdle
    /\ SampleIdle
    /\ PxIdle
    /\ AttrIdle
    /\ ByteIdle
    /\ PairIdle
    /\ TornIdle

OthersFlightUnchanged == UNCHANGED <<varsNorm, varsVec, varsPage, varsWf, varsRead, varsFlood, varsFema, varsDisc, varsSample, varsPx, varsAttr, varsByte, varsPair, varsTorn>>

InitFlight == FlightInit /\ OthersFlightIdle

NextFlight ==
    \/ FlightIssue /\ OthersFlightUnchanged
    \/ FlightSettle /\ OthersFlightUnchanged

SpecFlight == InitFlight /\ [][NextFlight]_vars

\* everything outside the Pair component stays as it is
OthersPairIdle ==
    /\ NormIdle
    /\ VecIdle
    /\ PageIdle
    /\ WfIdle
    /\ ReadIdle
    /\ FloodIdle
    /\ FemaIdle
    /\ DiscIdle
    /\ SampleIdle
    /\ PxIdle
    /\ AttrIdle
    /\ ByteIdle
    /\ FlightIdle
    /\ TornIdle

OthersPairUnchanged == UNCHANGED <<varsNorm, varsVec, varsPage, varsWf, varsRead, varsFlood, varsFema, varsDisc, varsSample, varsPx, varsAttr, varsByte, varsFlight, varsTorn>>

InitPair == PairInit /\ OthersPairIdle

NextPair == PairRead /\ OthersPairUnchanged

SpecPair == InitPair /\ [][NextPair]_vars

\* everything outside the Torn component stays as it is
OthersTornIdle ==
    /\ NormIdle
    /\ VecIdle
    /\ PageIdle
    /\ WfIdle
    /\ ReadIdle
    /\ FloodIdle
    /\ FemaIdle
    /\ DiscIdle
    /\ SampleIdle
    /\ PxIdle
    /\ AttrIdle
    /\ ByteIdle
    /\ FlightIdle
    /\ PairIdle

OthersTornUnchanged == UNCHANGED <<varsNorm, varsVec, varsPage, varsWf, varsRead, varsFlood, varsFema, varsDisc, varsSample, varsPx, varsAttr, varsByte, varsFlight, varsPair>>

InitTorn == TornInit /\ OthersTornIdle

NextTorn == TornExtract /\ OthersTornUnchanged

SpecTorn == InitTorn /\ [][NextTorn]_vars

(***************************************************************************)
(* Properties of the normalizers.                                          *)
(***************************************************************************)
\* the normalizers the taxonomy contract names
TaxonomyFns ==
    {"mapLabelLoose", "mapLabelToLevel", "mapScoreToLevel", "toLevelFromLabel",
     "toLevelFromValue", "levelFromRps", "levelFromClassCode"}

\* C8: every normalizer is total: whatever the input and whatever the
\* LANDSLIDE_VALUE_MAP configuration, the call returns one of the risk
\* levels; it never throws and never returns anything else.
C8_NormalizersTotal ==
    (nfn \in TaxonomyFns /\ nout.st # "pending")
        => (nout.st = "returned" /\ nout.level \in Levels)

\* the words and codes some rule of some normalizer recognises
KnownWords ==
    {s_high, s_low, s_moderate, s_rating, s_applicable, s_insufficient,
     s_undetermined, s_unknown, s_data}

KnownCodes == {s_vh, s_vl, <<"h">>, <<"m">>, <<"l">>}

\* a string no rule recognises: not a number, no known word in it, not a code
UnrecognizedString(x) ==
    /\ x.t = "str"
    /\ ToNumber(x).t = "nan"
    /\ LET n == StripSeparators(ToLowerCase(x.s))
       IN  /\ \A w \in KnownWords : ~Includes(n, w)
           /\ n \notin KnownCodes

\* an input that matches none of the rules of any scale: NaN, null, a
\* negative number, a number above every declared range (0-1, 0-100, 1-5,
\* 0-255, 0-1020 are the declared ranges), an unrecognised string
MatchesNoRule(x) ==
    \/ x.t \in {"nan", "null"}
    \/ x.t = "num" /\ (x.v < 0 \/ x.v > 102000)
    \/ UnrecognizedString(x)

\* C9: in every normalizer an input that matches none of the rules yields
\* Undetermined, never one of the five ordered levels.
C9_NoRuleUndetermined ==
    (nout.st # "pending" /\ MatchesNoRule(nin) /\ ncfg = CfgUnset)
        => (nout.st = "returned" /\ nout.level = "Undetermined")

\* the normalizers that read a text label
LabelFns ==
    {"mapLabelToLevel", "toLevelFromLabel", "mapLabelLoose",
     "mapLabelToLevel_tiles", "mapToFive"}

\* str without the separator characters at its two ends
RECURSIVE TrimSeps(_)
TrimSeps(str) ==
    IF str # <<>> /\ Head(str) \in LabelSepChars THEN TrimSeps(Tail(str))
    ELSE IF str # <<>> /\ str[Len(str)] \in LabelSepChars
         THEN TrimSeps(SubSeq(str, 1, Len(str) - 1))
         ELSE str

\* str is w1 then w2 in any letter case, with a non-empty run of whitespace,
\* underscores or hyphens between the words and any such run around them
IsPhraseVariant(str, w1, w2) ==
    LET core == TrimSeps(ToLowerCase(str))
        n == Len(core)
    IN  /\ n > Len(w1) + Len(w2)
        /\ SubSeq(core, 1, Len(w1)) = w1
        /\ SubSeq(core, n - Len(w2) + 1, n) = w2
        /\ \A q \in (Len(w1) + 1)..(n - Len(w2)) : core[q] \in LabelSepChars

\* the name a normalizer gives the two extreme levels
VeryHighOf(fn) == IF fn = "mapLabelToLevel_tiles" THEN "very_high" ELSE "Very High"

VeryLowOf(fn) == IF fn = "mapLabelToLevel_tiles" THEN "very_low" ELSE "Very Low"

\* C10: every variant of "very high" (any letter case, any whitespace,
\* underscore or hyphen between or around the words) is Very High in each
\* label normalizer, and every such variant of "very low" is Very Low.
C10_VeryVariants ==
    (nfn \in LabelFns /\ nout.st # "pending" /\ nin.t = "str")
        => /\ IsPhraseVariant(nin.s, s_very, s_high)
                => (nout.st = "returned" /\ nout.level = VeryHighOf(nfn))
           /\ IsPhraseVariant(nin.s, s_very, s_low)
                => (nout.st = "returned" /\ nout.level = VeryLowOf(nfn))

(***************************************************************************)
(* Properties of the NRI tract/county handlers.                            *)
(***************************************************************************)
\* the two sentinels of the taxonomy
Sentinels == {"Undetermined", "Not Applicable"}

\* the level the handler derives from the polygon of a layer
TractLevel == FeatureLevel(vh, vworld.tract, vreq.mode)

CountyLevel == FeatureLevel(vh, vworld.county, vreq.mode)

\* the response carries the tract's answer
AnsweredFromTract ==
    /\ vpc = "done"
    /\ vresp.status = 200
    /\ vresp.adminUnit = "tract"
    /\ vresp.level = TractLevel

\* C1 (as stated): whenever the tract layer yields a feature, the response
\* carries adminUnit "tract" and the level derived from the tract's
\* attributes, and the county layer is never queried.
C1_TractAlwaysWins ==
    vfeat.tract => (vq.county = 0 /\ (vpc = "done" => AnsweredFromTract))

\* C1 (amended): whenever the tract layer yields a feature whose derived
\* level is neither Undetermined nor Not Applicable, the response carries
\* adminUnit "tract" and that level, and the county layer is never queried.
C1_UsableTractWins ==
    (vfeat.tract /\ TractLevel \notin Sentinels)
        => (vq.county = 0 /\ AnsweredFromTract)

\* C1 witness: the tract says Low, the county would say High, the answer is
\* the tract's Low and no county query was sent
C1_Witness ==
    /\ vpc = "done"
    /\ vfeat.tract
    /\ TractLevel = "Low"
    /\ vworld.county.has
    /\ CountyLevel = "High"
    /\ vresp.level = "Low"
    /\ vresp.adminUnit = "tract"
    /\ vq.county = 0

\* C2: the handler tries the tract layer, then the county layer, and stops
\* at the first layer whose result is neither Undetermined nor Not
\* Applicable: a usable tract ends the search, a tract result that is a
\* sentinel sends the handler on to the county, and a usable county result
\* then is the answer (tract Undetermined, county High: High).
C2_FallbackOrder ==
    /\ vq.county > 0 => vq.tract > 0
    /\ (vfeat.tract /\ TractLevel \notin Sentinels) => vq.county = 0
    /\ (vpc = "done" /\ vfeat.tract /\ TractLevel \in Sentinels /\ ~vreq.tractOnly)
          => /\ vq.county > 0
             /\ (vfeat.county /\ CountyLevel \notin Sentinels)
                   => vresp.level = CountyLevel

\* every layer the request allows was queried and none yielded a feature
ChainExhausted ==
    /\ vpc = "done"
    /\ vq.tract > 0
    /\ vq.county > 0 \/ vreq.tractOnly
    /\ ~vfeat.tract
    /\ ~vfeat.county

\* C3: when every source of the chain was tried without a usable result the
\* handler answers HTTP 200 with level Undetermined and a null provider,
\* never an error status.
C3_ExhaustionIsUndetermined ==
    ChainExhausted
        => /\ vresp.status = 200
           /\ vresp.level = "Undetermined"
           /\ vresp.provider = "null"

\* the request's coordinate is missing, not finite, or outside
\* [-90,90] x [-180,180]
CoordInvalid(req) ==
    LET la == ToNumber(req.lat)
        lo == ToNumber(req.lon)
    IN  \/ IsNullish(req.lat) \/ IsNullish(req.lon)
        \/ ~IsFiniteNum(la) \/ ~IsFiniteNum(lo)
        \/ la.v < -9000 \/ la.v > 9000
        \/ lo.v < -18000 \/ lo.v > 18000

\* C6: a request whose latitude or longitude is missing, non-finite or out
\* of range is answered with an error response and no provider query is
\* sent.
C6_InvalidCoordinateRejected ==
    (~vreq.address /\ CoordInvalid(vreq))
        => /\ vq.tract = 0
           /\ vq.county = 0
           /\ vpc = "done" => vresp.status = 400

(***************************************************************************)
(* Properties of the page's fan-out.                                       *)
(***************************************************************************)
\* an onCheck run has finished after its eight requests settled
RunFinished == ppc = "finished" /\ pout # AllCards("none")

\* the level the card of a hazard shows when its request's body is read
OwnLevel(h) == BodyLevel(pver, h, "ok")

\* the ways a hazard request fails: rejected, or answered with a non-OK
\* status (whatever the body)
FailedKinds == {"rejected", "nonok", "nonok_nonjson"}

\* C4: whatever the combination of outcomes of the eight hazard requests,
\* once onCheck finishes every hazard whose own request succeeded shows its
\* own level: another hazard's failure never leaves its card unresolved.
C4_FailuresIsolated ==
    RunFinished => \A h \in HazardSet : pout[h] = "ok" => plevel[h] = OwnLevel(h)

\* C5: a hazard whose request fails (rejected or non-OK) ends with its card
\* level Undetermined, and when failed requests are all that went wrong the
\* error banner stays empty.
C5_FailureIsUndetermined ==
    RunFinished
        => /\ \A h \in HazardSet : pout[h] \in FailedKinds => plevel[h] = "Undetermined"
           /\ (\A h \in HazardSet : pout[h] \in FailedKinds \cup {"ok"}) => perror = "null"

(***************************************************************************)
(* Properties of the wildfire handler.                                     *)
(***************************************************************************)
\* C7: the wildfire handler answers Not Applicable only when a provider
\* actually answered (no-data) at the point and at every ring sample it
\* read; when every provider call failed (HTTP error, timeout, unparseable
\* body) the level is Undetermined, never Not Applicable.
C7_NotApplicableMeansNoData ==
    (wpc = "done" /\ wresp.status = 200)
        => /\ wresp.level = "Not Applicable" => ~wgap
           /\ wallFailed => wresp.level = "Undetermined"


(***************************************************************************)
(* Properties of the wildfire raster reader (third revision).              *)
(***************************************************************************)
\* Very Low < Low < Moderate < High < Very High
SeverityRank(level) ==
    CASE level = "Very Low" -> 1
      [] level = "Low" -> 2
      [] level = "Moderate" -> 3
      [] level = "High" -> 4
      [] level = "Very High" -> 5
      [] OTHER -> 0

\* the two readings of the point readBothAndChoose was called at
RpsReading == getVariantValue("RPS", brps.kind, brps.raw)

ClsReading == getVariantValue("RPS_Class", bcls.kind, bcls.raw)

ReadingValid(r) == r.ok /\ r.hasValue

\* the normalized level of a valid reading
ReadingLevel(r) ==
    IF r.type = "class" THEN levelFromClassCode(JsNum(r.value))
    ELSE levelFromRps(JsNum(r.value))

\* C11: where both the continuous-score reading and the class reading are
\* valid, readBothAndChoose returns the more severe of the two normalized
\* levels; where only one is valid, it returns that reading's level.
C11_MoreSevereReadingWins ==
    bpc = "returned" =>
        LET lr == ReadingLevel(RpsReading)
            lc == ReadingLevel(ClsReading)
        IN  /\ (ReadingValid(RpsReading) /\ ReadingValid(ClsReading))
                => /\ bout.level \in {lr, lc}
                   /\ SeverityRank(bout.level) >= SeverityRank(lr)
                   /\ SeverityRank(bout.level) >= SeverityRank(lc)
                   /\ bout.level \in OrderedLevels
            /\ (ReadingValid(RpsReading) /\ ~ReadingValid(ClsReading))
                => bout.level = lr
            /\ (ReadingValid(ClsReading) /\ ~ReadingValid(RpsReading))
                => bout.level = lc

\* C11 witness: the class reading says Moderate, the score reading says
\* High, and High is returned
C11_Witness ==
    /\ bpc = "returned"
    /\ ReadingValid(RpsReading) /\ ReadingLevel(RpsReading) = "High"
    /\ ReadingValid(ClsReading) /\ ClsReading.type = "class"
    /\ ReadingLevel(ClsReading) = "Moderate"
    /\ bout.level = "High"

(***************************************************************************)
(* Provider failures in the NRI tract/county handlers.                     *)
(***************************************************************************)
\* C12: when a provider answers an escalation step with an HTTP error or
\* the fetch rejects, escalation continues and no exception escapes the
\* handler: the request never ends as an unhandled exception (HTTP 500).
C12_ProviderFailureContained ==
    vpc = "done" => vresp.status # 500

(***************************************************************************)
(* Properties of classifyFlood.                                            *)
(***************************************************************************)
\* the call was on a single feature with attributes whose FLD_ZONE is the
\* given zone, in any letter case
SingleFeatureOfZone(zone) ==
    /\ Len(cfeatures) = 1
    /\ cfeatures[1].hasAttrs
    /\ cfeatures[1].FLD_ZONE.t = "str"
    /\ ToUpperCase(cfeatures[1].FLD_ZONE.s) = zone

\* the feature's subtype marks the shaded / 0.2 % zone
ShadedSubtype(f) ==
    /\ f.ZONE_SUBTY.t = "str"
    /\ \/ Includes(ToUpperCase(f.ZONE_SUBTY.s), <<"0",".","2">>)
       \/ Includes(ToUpperCase(f.ZONE_SUBTY.s), <<"S","H","A","D","E","D">>)

\* C17: classifyFlood maps a single feature of zone X without a shaded /
\* 0.2 % subtype to Low, and a single feature of zone VE to Very High with
\* the coastal-high-hazard note.
C17_ZoneXLowZoneVEVeryHigh ==
    cpc = "returned" =>
        /\ (SingleFeatureOfZone(<<"X">>) /\ ~ShadedSubtype(cfeatures[1]))
              => cout.level = "Low"
        /\ SingleFeatureOfZone(<<"V","E">>)
              => /\ cout.level = "Very High"
                 /\ cout.note = "Coastal high hazard (wave action)"

\* C17 witness: a VE feature was classified Very High with the coastal note
\* by the part_000 revision
C17_Witness ==
    /\ cpc = "returned"
    /\ cver = "part000"
    /\ SingleFeatureOfZone(<<"V","E">>)
    /\ cout = [level |-> "Very High", note |-> "Coastal high hazard (wave action)"]

(***************************************************************************)
(* Properties of the flood query handler.                                  *)
(***************************************************************************)
\* the last outbound call was answered with a body that is not JSON
LastBodyNotJson == flast \in {"html", "nobody"}

\* every outbound call of the handler has been made
FemaStagesDone == fstage = Len(FemaStages(fver))

\* C13: a provider response whose body is not JSON is handled exactly like
\* "no feature": no exception escapes the handler and escalation proceeds
\* to the next step (after the last step, the empty answer is returned).
C13_NonJsonIsNoFeature ==
    (LastBodyNotJson /\ fpc = "done")
        => /\ FemaStagesDone
           /\ fresp.status = 200
           /\ fresp.features = <<>>

\* C16: when the flood query has exhausted all its stages without any
\* feature, the flood hazard resolves to Undetermined: the empty feature
\* list of the answer is classified Undetermined by every classifyFlood.
C16_NoFloodFeatureIsUndetermined ==
    (fpc = "done" /\ FemaStagesDone /\ fresp.status = 200 /\ fresp.features = <<>>)
        => \A ver \in FloodVersions :
              classifyFloodResult(ver, fresp.features).level = "Undetermined"

\* C14: against a provider that never responds, every outbound call is
\* abandoned by its per-attempt timeout and the resolution goes on: no
\* handler is ever left waiting on a call that nothing will end.
C14_NoCallWaitsForever ==
    vpc # "hung"

(***************************************************************************)
(* Debug mode.                                                             *)
(***************************************************************************)
\* C15: for any fixed provider behaviour, the same request run with debug
\* on and with debug off yields the same HTTP status, the same answer and
\* the same outbound queries; debug only adds trace fields.
C15_DebugOnlyAddsTrace ==
    dpc = "returned"
        => /\ don.status = doff.status
           /\ don.base = doff.base
           /\ don.queries = doff.queries

(***************************************************************************)
(* The middle levels of the label normalizers.                             *)
(***************************************************************************)
\* str is the single word w in any letter case
IsBareWord(str, w) == ToLowerCase(str) = w

\* the name a normalizer gives one of the three middle levels
MiddleOf(fn, level) ==
    IF fn # "mapLabelToLevel_tiles" THEN level
    ELSE CASE level = "High" -> "high"
           [] level = "Moderate" -> "moderate"
           [] level = "Low" -> "low"

\* the label is "relatively <word>" in one of its variants, or the bare word
NamesMiddleLevel(str, word) ==
    IsPhraseVariant(str, s_relatively, word) \/ IsBareWord(str, word)

\* C18: in every label normalizer "relatively high" (any letter case, spaces,
\* underscores or hyphens between the words) and bare "high" are High,
\* "relatively moderate" and "moderate" are Moderate, "relatively low" and
\* "low" are Low.
C18_MiddlePhrases ==
    (nfn \in LabelFns /\ nout.st # "pending" /\ nin.t = "str")
        => /\ NamesMiddleLevel(nin.s, s_high)
                => (nout.st = "returned" /\ nout.level = MiddleOf(nfn, "High"))
           /\ NamesMiddleLevel(nin.s, s_moderate)
                => (nout.st = "returned" /\ nout.level = MiddleOf(nfn, "Moderate"))
           /\ NamesMiddleLevel(nin.s, s_low)
                => (nout.st = "returned" /\ nout.level = MiddleOf(nfn, "Low"))

(***************************************************************************)
(* Properties of pickFeature.                                              *)
(***************************************************************************)
VecUnits == {"tract", "county"}

\* seq is an initial part of full
IsPrefixOf(seq, full) ==
    /\ Len(seq) <= Len(full)
    /\ \A i \in 1..Len(seq) : seq[i] = full[i]

\* the order of the steps: point-within, point-intersects with a tolerance
\* of 3, 7, 15, 30 m, then envelope-intersects
StatedOrder(envelope) ==
    <<"point:within", "point:intersects:3m", "point:intersects:7m",
      "point:intersects:15m", "point:intersects:30m", envelope>>

\* the order of each revision: the second one adds a 50 m tolerance step and
\* widens the envelope to 150 m
RevisionOrder(h) ==
    IF h = "tornado1" THEN StatedOrder("envelope:intersects:50m")
    ELSE SubSeq(StatedOrder("-"), 1, 5)
             \o <<"point:intersects:50m", "envelope:intersects:150m">>

\* the steps issued so far on each source are the first steps of the order
\* of the revision, and a source that is still being queried has returned no
\* feature
IssuedInOrder ==
    \A u \in VecUnits :
        /\ IsPrefixOf(vissued[u], RevisionOrder(vh))
        /\ vpc = u => ~vfeat[u]

\* a source that has returned a feature is not queried again
NoQueryAfterFeature ==
    \A u \in VecUnits : vfeat[u] => vissued'[u] = vissued[u]

\* C19 (amended): pickFeature queries one source in the fixed order of its
\* revision: point-within, point-intersects with tolerance 3, 7, 15, 30 m
\* (and 50 m in the second revision), then envelope-intersects; a step is
\* issued only after every earlier step returned no feature, and no query
\* is issued on a source after the first step that returned a feature.
C19_StepsInRevisionOrder ==
    [](IsTornado(vh) => IssuedInOrder)
        /\ [][IsTornado(vh) => NoQueryAfterFeature]_vars

\* C19 case: the second revision went through all seven steps on the tract
\* source without a feature and found the county feature at its third step
C19_Witness ==
    /\ vh = "tornado2"
    /\ vpc = "done"
    /\ Len(vissued.tract) = 7 /\ ~vfeat.tract
    /\ Len(vissued.county) = 3 /\ vfeat.county

\* C19 as stated: the steps issued on a source are the first steps of
\* point-within, point-intersects 3, 7, 15, 30 m, envelope-intersects.
C19_StatedOrder ==
    IsTornado(vh)
        => \A u \in VecUnits :
              \/ IsPrefixOf(vissued[u], StatedOrder("envelope:intersects:50m"))
              \/ IsPrefixOf(vissued[u], StatedOrder("envelope:intersects:150m"))

(***************************************************************************)
(* Properties of the ring search.                                          *)
(***************************************************************************)
\* C20: when the pixel at the point is no-data, the value returned from a
\* ring is that of the first valid sample of the ring in angular order, the
\* search stopping there; not that of the most severe sample of the ring.
C20_FirstValidSampleWins ==
    (spc = "done" /\ sout.meters > 0) => sout.level = sfirst

(***************************************************************************)
(* Properties of the raster samplers.                                      *)
(***************************************************************************)
\* a sample that is null, exactly 0, -9999 or of magnitude above 1e20
IsNoDataSample(raw) ==
    \/ IsNullish(raw)
    \/ IsHuge(raw)
    \/ raw.t = "num" /\ raw.v \in {0, -999900}

\* C21: every raster sampler treats a sample that is null, exactly 0, -9999
\* or of magnitude above 1e20 as no-data: it produces no risk level for the
\* point and the sampler moves on to its next variant or ring sample.
C21_NoDataNeverALevel ==
    (xpc = "read" /\ xkind = "answered" /\ IsNoDataSample(xraw)) => xout.moved

(***************************************************************************)
(* Properties of the field locators.                                       *)
(***************************************************************************)
\* the exact (canonical) rating and score fields of a locator
IsExactRating(fn, up) ==
    CASE fn = "extract" -> IsTrndRiskr(up)
      [] fn = "extractTornado" -> IsTornRiskr(up)
      [] fn = "extractRating" -> up = k_LNDS_RISKR
      [] fn = "pickField" -> ToLowerCase(up) \in CommonFields

IsExactScore(fn, up) ==
    CASE fn = "extract" -> IsTrndRisks(up)
      [] fn = "extractTornado" -> IsTornRisks(up)
      [] fn = "extractRating" -> up = k_LNDS_RISKS
      [] fn = "pickField" -> FALSE

\* a key that only a fuzzy pattern of the locator matches
IsFuzzyRating(fn, up) ==
    fn = "extract" /\ IsTrndAnyRiskr(up) /\ ~IsTrndRiskr(up)

IsFuzzyScore(fn, up) ==
    \/ fn = "extract" /\ IsTrndScoreLike(up) /\ ~IsTrndRisks(up)
    \/ fn = "extractTornado" /\ IsTornScoreLike(up) /\ ~IsTornRisks(up)

\* the upper-cased keys of the bag the locator was called on
BagKeys == {ToUpperCase(abag[i].key) : i \in 1..Len(abag)}

\* C22: when the bag holds both the exact field and a key that only a fuzzy
\* pattern matches, the locator returns the exact field, whatever the order
\* of the keys.
C22_ExactFieldPreferred ==
    apc = "returned"
        => /\ ((\E up \in BagKeys : IsExactRating(afn, up))
                    /\ (\E up \in BagKeys : IsFuzzyRating(afn, up)))
                => IsExactRating(afn, ToUpperCase(aout.label))
           /\ ((\E up \in BagKeys : IsExactScore(afn, up))
                    /\ (\E up \in BagKeys : IsFuzzyScore(afn, up)))
                => IsExactScore(afn, ToUpperCase(aout.score))

\* C23: the locator never returns, as the rating or as the score, a key that
\* contains RANK, PCTL or INDEX, nor an unrelated small-integer field.
C23_NoAuxiliaryField ==
    apc = "returned"
        => \A key \in {aout.label, aout.score} :
              /\ ~IsAuxiliaryKey(ToUpperCase(key))
              /\ key \notin OtherKeys

(***************************************************************************)
(* Properties of byteToClass.                                              *)
(***************************************************************************)
\* 1 + floor(b * 5 / 256), clamped to 1..5
FiveEqualBuckets(b) ==
    LET c == 1 + ((b * 5) \div 256)
    IN  IF c < 1 THEN 1 ELSE IF c > 5 THEN 5 ELSE c

\* C24: for every integer b in 0..255, byteToClass(b) is 1 + floor(b*5/256)
\* clamped to 1..5; byteToClass(0) = 1, byteToClass(255) = 5 and
\* byteToClass(128) = 3.
C24_ByteBuckets ==
    ypc = "returned"
        => /\ yout = FiveEqualBuckets(yb)
           /\ yout \in 1..5
           /\ yb = 0 => yout = 1
           /\ yb = 255 => yout = 5
           /\ yb = 128 => yout = 3

\* C24 case: byteToClass has classified the byte 128
C24_Witness == ypc = "returned" /\ yb = 128 /\ yout = 3

(***************************************************************************)
(* Properties of the numeric normalizers.                                  *)
(***************************************************************************)
\* the normalizers of a class code
ClassCodeFns == {"levelFromClassCode", "toLevelFromValue"}

\* 1, 2, 3, 4, 5 are the five ordered levels; anything else is Undetermined
LevelOfClass(n) ==
    CASE n = 1 -> "Very Low"
      [] n = 2 -> "Low"
      [] n = 3 -> "Moderate"
      [] n = 4 -> "High"
      [] n = 5 -> "Very High"
      [] OTHER -> "Undetermined"

\* C25: a class-code normalizer rounds its input to the nearest integer and
\* maps 1..5 to Very Low .. Very High; a value whose rounding falls outside
\* 1..5 (0, negatives, 6 and above) is Undetermined.
C25_ClassCodeLevels ==
    (nfn \in ClassCodeFns /\ nout.st # "pending" /\ nin.t = "num" /\ ncfg = CfgUnset)
        => (nout.st = "returned" /\ nout.level = LevelOfClass(MathRound(nin.v)))


\* the normalizers of a score
ScoreFns == {"mapScoreToLevel", "mapLabelLoose"}

\* the score on the 0..100 scale, in hundredths: a value of at most 1.5 is
\* scaled by 100
ScaledScore(h) == IF h <= 150 THEN h * 100 ELSE h

\* the level by the cut points 20, 40, 60, 80
LevelOfScore(s) ==
    IF s < 2000 THEN "Very Low"
    ELSE IF s < 4000 THEN "Low"
    ELSE IF s < 6000 THEN "Moderate"
    ELSE IF s < 8000 THEN "High"
    ELSE "Very High"

\* C26: a score normalizer scales a value of at most 1.5 by 100 and assigns
\* the level by the cut points 20, 40, 60, 80: for every score in 0..100
\* that is not a cut point, below 20 is Very Low, 20..40 Low, 40..60
\* Moderate, 60..80 High and above 80 Very High.
C26_ScoreCutPoints ==
    (/\ nfn \in ScoreFns
     /\ nout.st # "pending"
     /\ nin.t = "num"
     /\ ScaledScore(nin.v) >= 0 /\ ScaledScore(nin.v) <= 10000
     /\ ScaledScore(nin.v) \notin {2000, 4000, 6000, 8000})
        => (nout.st = "returned" /\ nout.level = LevelOfScore(ScaledScore(nin.v)))

(***************************************************************************)
(* Properties of the sequencing of provider requests.                      *)
(***************************************************************************)
\* C27: within one handler invocation at most one provider request is
\* outstanding at any time; a source or step is queried only after the
\* previous request of the invocation has completed or failed.
C27_OneRequestAtATime ==
    /\ qflight <= 1
    /\ (qpc = "call" /\ qk > 1) => qflight = 0

\* C27 case: the third request of a tornado invocation is outstanding, the
\* first two having settled
C27_Witness == qh = "tornado1" /\ qpc = "await" /\ qk = 3 /\ qflight = 1

(***************************************************************************)
(* Properties of the attempt cap of sampleNearest (first revision).        *)
(***************************************************************************)
\* C28: the number of ring sample points probed in one invocation, counted
\* across all sources, stays below MAX_ATTEMPTS, and once the cap is reached
\* no further provider call is made.
C28_RingSamplesCapped ==
    /\ wprobed < WfMaxAttempts(WfMode(wreq))
    /\ wattempts >= WfMaxAttempts(WfMode(wreq)) => wpc = "done"

\* C28 case: the cap was reached on the second source, after every ring of
\* the first one
C28_Witness ==
    /\ wpc = "done"
    /\ wsrc = 2
    /\ wattempts = WfMaxAttempts(WfMode(wreq))
    /\ wprobed = WfMaxAttempts(WfMode(wreq)) - 1

(***************************************************************************)
(* Properties of the debug trace.                                          *)
(***************************************************************************)
\* C29: in debug mode the trace returned by the handler holds exactly one
\* entry per outbound raster query made during the resolution, up to the
\* success or the exhaustion.
C29_TraceListsEveryQuery ==
    spc = "done" => Len(DebugAttempts(sout)) = scalls


(***************************************************************************)
(* C30: the sampler leaves the input coordinate alone and computes every   *)
(* sample point from it.                                                   *)
(***************************************************************************)
\* the point that is one offset (ring k, sample i) away from the input
OffsetFromInput(k, i) == <<[ring |-> k, i |-> i]>>

C31_FallbackQueried ==
    (wpc = "done" /\ wresp.status = 200 /\ ~wresp.hasValue) => wsrc = Len(WfSources)


(***************************************************************************)
(* C32: one onCheck run at a time.                                         *)
(***************************************************************************)
\* C32: at most one onCheck run is in progress at any time, a run is in
\* progress exactly while loading is not "idle", and while it is no second
\* run can start, so the cards only ever hold the results of one run.
C32_OneRunAtATime ==
    /\ pruns <= 1
    /\ (pruns = 1) = (ploading # "idle")
    /\ ploading # "idle" => ~ENABLED PageCheck

\* a run is reading its fourth settled request, loading still "fetch"
C32_Witness ==
    /\ pruns = 1
    /\ ppc = "read"
    /\ pidx = 4
    /\ ploading = "fetch"


C34_LevelMonotone ==
    mpc = "read" => LEVEL_SCORE(mout[1]) <= LEVEL_SCORE(mout[2])


(***************************************************************************)
(* C35: extractTornado takes the label first, the score second.            *)
(***************************************************************************)
\* the level of a 0-100 score by the cut points 20, 40, 60, 80 (hundredths)
LevelByCutPoints(s) ==
    IF s >= 8000 THEN "Very High"
    ELSE IF s >= 6000 THEN "High"
    ELSE IF s >= 4000 THEN "Moderate"
    ELSE IF s >= 2000 THEN "Low"
    ELSE "Very Low"

\* C35: extractTornado returns the level of the rating label whenever that
\* is one of the five ordered levels; when the label is absent or maps to
\* Undetermined or Not Applicable, a numeric score gives the level by the
\* cut points 20/40/60/80, and without a numeric score the label's level
\* stays.
C35_LabelBeforeScore ==
    tpc = "returned" =>
        LET byLabel == mapLabelToLevel(tattrs.rating)
        IN  IF byLabel \in OrderedLevels THEN tout = byLabel
            ELSE IF tattrs.score.t = "num" THEN tout = LevelByCutPoints(tattrs.score.v)
            ELSE tout = byLabel

\* a rating of Relatively Low with a score of 80: the label wins
C35_Witness ==
    /\ tpc = "returned"
    /\ tattrs = Attrs(JsStr(s_Relatively \o s_sp \o L_Low), JsNum(8000))
    /\ tout = "Low"


(***************************************************************************)
(* C36: what the flood query answers.                                      *)
(***************************************************************************)
\* C36: the flood query handler (first revision) goes through its steps in
\* order and stops at the first that returns features, which are the
\* features of the response; when no step returned any the response is an
\* empty feature list with status 200, except that an error reported by
\* the identify step gives status 502, and nothing else does.
C36_FloodQueryAnswer ==
    (fver = "query1" /\ fpc = "done" /\ fresp.status # 400) =>
        LET stage == FemaStages(fver)[fstage]
        IN  /\ fresp.status = 502 => (stage = "identify" /\ flast = "error")
            /\ (flast = "features" /\ stage # "layers") =>
                   (fresp.status = 200 /\ fresp.features \in FemaFeatureLists)
            /\ (flast # "features" /\ ~(stage = "identify" /\ flast = "error")) =>
                   (fresp.status = 200 /\ fresp.hasFeatures /\ fresp.features = <<>>)


(***************************************************************************)
(* C37: classifyFlood over several features.                               *)
(***************************************************************************)
\* the features in the opposite order
Reversed(features) == [i \in 1..Len(features) |-> features[Len(features) + 1 - i]]

\* C37: classifyFlood (page.tsx) returns the level and the note of the most
\* severe feature: no feature of the list has a level ranked above the
\* returned one, and the same features in another order give the same
\* result.
C37_MostSevereFeature ==
    (cpc = "returned" /\ cver = "page2") =>
        /\ \A i \in 1..Len(cfeatures) :
              cfeatures[i].hasAttrs =>
                  FloodRank(FloodEvalOne(cfeatures[i], "regex")) <= FloodRank(cout.level)
        /\ cout = classifyFloodResult(cver, Reversed(cfeatures))


(***************************************************************************)
(* C38: Not Applicable, hasAny and the value of readBothAndChoose.         *)
(***************************************************************************)
\* C38: readBothAndChoose returns level Not Applicable exactly when hasAny
\* is false, which is exactly when the returned value is null; whenever
\* the RPS reading or the RPS_Class reading is valid, the returned level is
\* one of the five ordered levels.
C38_NotApplicableIffNothingRead ==
    bpc = "returned" =>
        /\ (bout.level = "Not Applicable") = ~bout.hasAny
        /\ (~bout.hasAny) = ~bout.hasValue
        /\ bout.hasAny = (ReadingValid(RpsReading) \/ ReadingValid(ClsReading))
        /\ (ReadingValid(RpsReading) \/ ReadingValid(ClsReading))
              => bout.level \in OrderedLevels

\* only the RPS_Class reading is valid and its level is returned
C38_Witness ==
    /\ bpc = "returned"
    /\ ~ReadingValid(RpsReading)
    /\ ReadingValid(ClsReading)
    /\ bout.hasAny
    /\ bout.rule = "RPS_Class"
    /\ bout.level = "Moderate"
=============================================================================
